---- MODULE Spec2Model ----
(***************************************************************************)
(* A model of the SMS command router: the message parser                   *)
(* (gemini-api.js MessageParser, message-handler.js MessageParser), the    *)
(* per-phone session stores (SessionManager, uber-pending.js) and the two  *)
(* /sms webhook handlers of server.js.                                     *)
(*                                                                         *)
(* Text is a sequence of one-character strings, so that trimming, case     *)
(* folding and the regular expressions are computed, not assumed.          *)
(***************************************************************************)
EXTENDS Integers, Sequences, FiniteSets, TLC

VARIABLES
  input,              \* parser run: [messageBody, hasMedia, mediaType]
  command,            \* parser run: the command returned, or NotParsed;
                      \* webhooks: parser.parse(...) of each body that may arrive
  parserUsed,         \* parser run: which MessageParser produced command
  now,                \* Date.now() / NOW(), in milliseconds
  sessions,           \* SessionManager.sessions: the entries of the Map
  pending_uber_rides, \* table pending_uber_rides: set of rows
  active_uber_rides,  \* table active_uber_rides: set of rows
  pending_uber_auth,  \* the pending authentication challenges: set of rows
  storeCall,          \* the last session store call and what it returned
  ops,                \* number of store writes / messages handled so far
  tasks,              \* detached continuations in flight
  req,                \* the inbound message last handled by a webhook
  parsed,             \* parser.parse(...) of that message
  reply,              \* the text of the webhook's response to it
  res,                \* the responses the webhook sent for it, in order
  mtaCall,            \* the transit lookup made while handling it
  agentCall,          \* the last ride agent invocation
  outbox,             \* the out-of-band SMS the last continuation sent, in order
  lastPut,            \* history: the writes per slot and phone, latest first
  lastStop,           \* history: most recent stop_query per phone
  daily_calories,     \* table daily_calories: set of rows [date, total]
  today,              \* the date getTodayKey() returns, as a day number
  resets,             \* resetToday invocations between their two queries
  calorieCall,        \* the last calorie tracker call that returned
  parsedData,         \* formatter run: the arrival data handed to formatAsText
  responseText,       \* formatter run: the text formatAsText returned
  calorieData,        \* the estimate the last food_query got from the AI
  agentRun            \* ride agent run: its position, counters and MCP client

vars == <<input, command, parserUsed, now, sessions, pending_uber_rides,
          active_uber_rides, pending_uber_auth, storeCall, ops, tasks, req, parsed, reply, res,
          mtaCall, agentCall, outbox, lastPut, lastStop,
          daily_calories, today, resets, calorieCall, parsedData, responseText,
          calorieData, agentRun>>

parseVars == <<input, command, parserUsed>>
storeVars == <<sessions, pending_uber_rides, active_uber_rides,
               pending_uber_auth>>
webVars == <<tasks, req, parsed, reply, res, mtaCall, agentCall, outbox, lastStop>>
calorieVars == <<daily_calories, today, resets, calorieCall>>
formatVars == <<parsedData, responseText, calorieData, agentRun>>

-----------------------------------------------------------------------------
(* Characters and strings *)

Chars(s) == [i \in 1..Len(s) |-> SubSeq(s, i, i)]

\* JavaScript null / undefined for a text-valued field: no character sequence
\* equals it, since every element of a text is a one-character string.
null == <<"null">>

UpperChars == Chars("ABCDEFGHIJKLMNOPQRSTUVWXYZ")
LowerChars == Chars("abcdefghijklmnopqrstuvwxyz")
DigitChars == Chars("0123456789")

SpaceSet == {" ", "\t", "\n"}
DigitSet == {DigitChars[i] : i \in 1..10}
UpperSet == {UpperChars[i] : i \in 1..26}
LowerSet == {LowerChars[i] : i \in 1..26}
ToLower == [c \in UpperSet |-> LowerChars[CHOOSE i \in 1..26 : UpperChars[i] = c]]
ToUpper == [c \in LowerSet |-> UpperChars[CHOOSE i \in 1..26 : LowerChars[i] = c]]
DigitValue == [c \in DigitSet |-> (CHOOSE i \in 1..10 : DigitChars[i] = c) - 1]

IsSpace(c) == c \in SpaceSet
IsDigit(c) == c \in DigitSet
\* the class [A-Z0-9\-] under the i flag
IsRouteChar(c) == c \in UpperSet \/ c \in LowerSet \/ c \in DigitSet \/ c = "-"

lowerChar(c) == IF c \in UpperSet THEN ToLower[c] ELSE c
upperChar(c) == IF c \in LowerSet THEN ToUpper[c] ELSE c

toLowerCase(s) == [i \in 1..Len(s) |-> lowerChar(s[i])]
toUpperCase(s) == [i \in 1..Len(s) |-> upperChar(s[i])]

\* String.prototype.trim
trim(s) ==
  IF \A i \in 1..Len(s) : IsSpace(s[i]) THEN <<>>
  ELSE LET first == CHOOSE i \in 1..Len(s) :
                      ~IsSpace(s[i]) /\ \A j \in 1..(i-1) : IsSpace(s[j])
           last  == CHOOSE i \in 1..Len(s) :
                      ~IsSpace(s[i]) /\ \A j \in (i+1)..Len(s) : IsSpace(s[j])
       IN SubSeq(s, first, last)

startsWith(s, p) == Len(s) >= Len(p) /\ SubSeq(s, 1, Len(p)) = p
\* s.substring(k), k counted from 0
substring(s, k) == SubSeq(s, k + 1, Len(s))

\* parseInt(digits, 10) of a non-empty digit string
RECURSIVE parseInt(_)
parseInt(d) ==
  IF Len(d) = 0 THEN 0
  ELSE 10 * parseInt(SubSeq(d, 1, Len(d) - 1))
       + DigitValue[d[Len(d)]]

\* Greedy quantifier over one character class: the index just after the
\* longest run of class characters that starts at index i.
SpanSpace(s, i) ==
  CHOOSE j \in i..(Len(s) + 1) :
    /\ \A k \in i..(j-1) : IsSpace(s[k])
    /\ (j = Len(s) + 1 \/ ~IsSpace(s[j]))

SpanDigit(s, i) ==
  CHOOSE j \in i..(Len(s) + 1) :
    /\ \A k \in i..(j-1) : IsDigit(s[k])
    /\ (j = Len(s) + 1 \/ ~IsDigit(s[j]))

SpanRoute(s, i) ==
  CHOOSE j \in i..(Len(s) + 1) :
    /\ \A k \in i..(j-1) : IsRouteChar(s[k])
    /\ (j = Len(s) + 1 \/ ~IsRouteChar(s[j]))

\* the string literals of the parsers
W_C_ == Chars("C ")
W_R == Chars("R")
W__to_ == Chars(" to ")
W_auth_ == Chars("auth ")
W_bus == Chars("bus")
W_c_ == Chars("c ")
W_cancel == Chars("cancel")
W_check == Chars("check")
W_confirm == Chars("confirm")
W_how == Chars("how")
W_image_ == Chars("image/")
W_qmark == Chars("?")
W_query == Chars("query")
W_r == Chars("r")
W_refresh == Chars("refresh")
W_reset_calories == Chars("reset calories")
W_status == Chars("status")
W_stop == Chars("stop")
W_sub == Chars("sub")
W_time == Chars("time")
W_times == Chars("times")
W_total == Chars("total")
W_uber_ == Chars("uber ")
W_when == Chars("when")

NoMatch == [matched |-> FALSE]

-----------------------------------------------------------------------------
(* MessageParser, gemini-api.js *)

\* lower.match(/^sub\s+(\d+)$/).  \s and \d are disjoint, so the greedy
\* runs are the only way to match and no backtracking is needed.
subMatch(lower) ==
  IF ~startsWith(lower, W_sub) THEN NoMatch
  ELSE LET a == SpanSpace(lower, 4)
           b == SpanDigit(lower, a)
       IN IF a > 4 /\ b > a /\ b = Len(lower) + 1
          THEN [matched |-> TRUE, g1 |-> SubSeq(lower, a, b - 1)]
          ELSE NoMatch

\* The alternation stop|bus|check|query|when|times? in the order the regex
\* engine tries it (times? is greedy: "times" before "time").
VerbAlternatives ==
  << W_stop, W_bus, W_check, W_query,
     W_when, W_times, W_time >>

\* \s*(\d{6})(?:\s+([A-Z0-9\-]+))? attempted at index k of s
stopTail(s, k) ==
  LET a == SpanSpace(s, k)
  IN IF a + 5 <= Len(s) /\ \A j \in a..(a+5) : IsDigit(s[j])
     THEN LET w == SpanSpace(s, a + 6)
              r == SpanRoute(s, w)
          IN [matched |-> TRUE,
              g1 |-> SubSeq(s, a, a + 5),
              g2 |-> IF w > a + 6 /\ r > w THEN SubSeq(s, w, r - 1) ELSE null]
     ELSE NoMatch

\* the whole pattern attempted at start index i: the optional verb group is
\* tried first (each alternative in order), then the empty alternative
stopMatchAt(s, low, i) ==
  LET fits(v) == /\ i + Len(VerbAlternatives[v]) - 1 <= Len(s)
                 /\ SubSeq(low, i, i + Len(VerbAlternatives[v]) - 1)
                      = VerbAlternatives[v]
                 /\ stopTail(s, i + Len(VerbAlternatives[v])).matched
      withVerb == {v \in 1..Len(VerbAlternatives) : fits(v)}
  IN IF withVerb # {}
     THEN LET v == CHOOSE x \in withVerb : \A y \in withVerb : x <= y
          IN stopTail(s, i + Len(VerbAlternatives[v]))
     ELSE stopTail(s, i)

\* variant: the pattern is anchored at the start of the text
stopMatchAnchored(trimmed) == stopMatchAt(trimmed, toLowerCase(trimmed), 1)

\* trimmed.match(/(?:stop|bus|check|query|when|times?)?\s*(\d{6})(?:\s+([A-Z0-9\-]+))?/i):
\* not anchored, so the engine takes the leftmost start index that matches
stopMatch(trimmed) ==
  LET low    == toLowerCase(trimmed)
      starts == {i \in 1..(Len(trimmed) + 1) : stopMatchAt(trimmed, low, i).matched}
  IN IF starts = {} THEN NoMatch
     ELSE stopMatchAt(trimmed, low, CHOOSE i \in starts : \A j \in starts : i <= j)

\* variant: any attached medium counts as an image
isImageAnyMedia(hasMedia, mediaType) == hasMedia

\* hasMedia && mediaType?.startsWith('image/')
isImage(hasMedia, mediaType) ==
  hasMedia /\ mediaType # null /\ startsWith(mediaType, W_image_)

\* rules 1-4: the exact commands, tried before the media check
exactRules(lower) ==
  IF lower = W_how \/ lower = W_qmark THEN [type |-> "help"]
  ELSE IF lower = W_reset_calories THEN [type |-> "reset_calories"]
  ELSE IF lower = W_total THEN [type |-> "total"]
  ELSE IF subMatch(lower).matched
       THEN [type |-> "subtract", amount |-> parseInt(subMatch(lower).g1)]
  ELSE NoMatch

\* variant: the route of a stop query is kept as typed
busRulesRouteAsTyped(trimmed, lower) ==
  IF lower = W_r \/ lower = W_refresh THEN [type |-> "refresh"]
  ELSE IF startsWith(lower, W_c_)
       THEN [type |-> "service_changes",
             route |-> toUpperCase(trim(substring(trimmed, 2)))]
  ELSE LET m == stopMatch(trimmed)
       IN IF m.matched
          THEN [type |-> "stop_query", stopCode |-> m.g1, route |-> m.g2]
          ELSE NoMatch

\* refresh, service changes and the stop code pattern
busRules(trimmed, lower) ==
  IF lower = W_r \/ lower = W_refresh THEN [type |-> "refresh"]
  ELSE IF startsWith(lower, W_c_)
       THEN [type |-> "service_changes",
             route |-> toUpperCase(trim(substring(trimmed, 2)))]
  ELSE LET m == stopMatch(trimmed)
       IN IF m.matched
          THEN [type |-> "stop_query", stopCode |-> m.g1,
                route |-> IF m.g2 # null THEN toUpperCase(m.g2) ELSE null]
          ELSE NoMatch

\* variant: a food description needs more than two characters
fallbackLongerThanTwo(trimmed) ==
  IF Len(trimmed) > 2
  THEN [type |-> "food_query", foodDescription |-> trimmed]
  ELSE [type |-> "error", message |-> "Send \"how\" for available commands."]

\* variant: no error return at the end of parse
fallbackNoErrorReturn(trimmed) ==
  IF Len(trimmed) >= 2
  THEN [type |-> "food_query", foodDescription |-> trimmed]
  ELSE [type |-> "undefined"]

\* the last two returns of parse
fallback(trimmed) ==
  IF Len(trimmed) >= 2
  THEN [type |-> "food_query", foodDescription |-> trimmed]
  ELSE [type |-> "error", message |-> "Send \"how\" for available commands."]

\* variant: the media check comes before the exact commands
rulesMediaFirst(messageBody, hasMedia, mediaType) ==
  LET trimmed == trim(messageBody)
      lower   == toLowerCase(trimmed)
  IN IF isImage(hasMedia, mediaType)
     THEN [type |-> "image_calorie", textContext |-> trimmed]
     ELSE IF "type" \in DOMAIN exactRules(lower) THEN exactRules(lower)
     ELSE busRules(trimmed, lower)

\* every rule of parse that precedes the fallback
rulesBeforeFallback(messageBody, hasMedia, mediaType) ==
  LET trimmed == trim(messageBody)
      lower   == toLowerCase(trimmed)
  IN IF "type" \in DOMAIN exactRules(lower) THEN exactRules(lower)
     ELSE IF isImage(hasMedia, mediaType)
          THEN [type |-> "image_calorie", textContext |-> trimmed]
     ELSE busRules(trimmed, lower)

parse(messageBody, hasMedia, mediaType) ==
  LET c == rulesBeforeFallback(messageBody, hasMedia, mediaType)
  IN IF "type" \in DOMAIN c THEN c ELSE fallback(trim(messageBody))

-----------------------------------------------------------------------------
(* MessageParser, message-handler.js: the parser of the session-based server *)

\* trimmed.match(/^(\d{6})(?:\s+([A-Z0-9\-]+))?$/i)
stopCodeMatch(trimmed) ==
  IF Len(trimmed) >= 6 /\ \A j \in 1..6 : IsDigit(trimmed[j])
  THEN IF Len(trimmed) = 6
       THEN [matched |-> TRUE, g1 |-> SubSeq(trimmed, 1, 6), g2 |-> null]
       ELSE LET w == SpanSpace(trimmed, 7)
                r == SpanRoute(trimmed, w)
            IN IF w > 7 /\ r > w /\ r = Len(trimmed) + 1
               THEN [matched |-> TRUE, g1 |-> SubSeq(trimmed, 1, 6),
                     g2 |-> SubSeq(trimmed, w, r - 1)]
               ELSE NoMatch
  ELSE NoMatch

parseV1(messageBody) ==
  LET trimmed == trim(messageBody)
  IN IF toUpperCase(trimmed) = W_R THEN [type |-> "refresh"]
     ELSE IF startsWith(toUpperCase(trimmed), W_C_)
          THEN [type |-> "service_changes", route |-> trim(substring(trimmed, 2))]
     ELSE IF stopCodeMatch(trimmed).matched
          THEN [type |-> "stop_query",
                stopCode |-> stopCodeMatch(trimmed).g1,
                route |-> IF stopCodeMatch(trimmed).g2 # null
                          THEN toUpperCase(stopCodeMatch(trimmed).g2) ELSE null]
     ELSE [type |-> "error",
           message |-> "Invalid format. Text a 6-digit stop code (e.g., \"308209\" or \"308209 B63\")"]

-----------------------------------------------------------------------------
(* The Uber sub-grammar of the unified parser.  server.js dispatches on     *)
(* uber_quote{pickup, destination}, uber_confirm, uber_status, uber_cancel  *)
(* and uber_auth{code}, but the parser revision that produces them is not   *)
(* part of the sources; it is written here from rule 9 of the parser        *)
(* precedence list, placed between the stop code rule and the fallback.     *)

\* index of the first " to " (case-folded) with text on both sides, or 0
firstTo(rest) ==
  LET low == toLowerCase(rest)
      at  == {i \in 2..(Len(rest) - 4) : SubSeq(low, i, i + 3) = W__to_}
      ok  == {i \in at : trim(SubSeq(rest, 1, i - 1)) # <<>>
                         /\ trim(SubSeq(rest, i + 4, Len(rest))) # <<>>}
  IN IF ok = {} THEN 0 ELSE CHOOSE i \in ok : \A j \in ok : i <= j

uberRules(trimmed, lower) ==
  IF ~startsWith(lower, W_uber_) THEN NoMatch
  ELSE LET rest  == trim(substring(trimmed, 5))
           lrest == toLowerCase(rest)
           k     == firstTo(rest)
       IN IF k > 0
          THEN [type |-> "uber_quote",
                pickup |-> trim(SubSeq(rest, 1, k - 1)),
                destination |-> trim(SubSeq(rest, k + 4, Len(rest)))]
          ELSE IF lrest = W_confirm THEN [type |-> "uber_confirm"]
          ELSE IF lrest = W_status THEN [type |-> "uber_status"]
          ELSE IF lrest = W_cancel THEN [type |-> "uber_cancel"]
          ELSE IF startsWith(lrest, W_auth_) /\ trim(substring(rest, 5)) # <<>>
               THEN [type |-> "uber_auth", code |-> trim(substring(rest, 5))]
          ELSE NoMatch

\* parse with rule 9 in its place: rules 1-8 and 10-11 are gemini-api.js
parseUnified(messageBody, hasMedia, mediaType) ==
  LET trimmed == trim(messageBody)
      lower   == toLowerCase(trimmed)
      c       == rulesBeforeFallback(messageBody, hasMedia, mediaType)
      u       == uberRules(trimmed, lower)
  IN IF "type" \in DOMAIN c THEN c
     ELSE IF "type" \in DOMAIN u THEN u
     ELSE fallback(trimmed)

-----------------------------------------------------------------------------
(* Parser runs: the inputs parse is applied to *)

MaxTokens == 2

NotParsed == [type |-> "not_parsed"]

Tokens ==
  { Chars("sub"), Chars(" "), Chars("2"), Chars("308209"), Chars("b63"),
    Chars("stop"), Chars("uber"), Chars("to"), Chars("a"), Chars("R"),
    Chars("c"), Chars("how") }

RECURSIVE TokenTexts(_)
TokenTexts(n) ==
  IF n = 0 THEN {<<>>}
  ELSE LET shorter == TokenTexts(n - 1)
       IN shorter \cup {p \o t : p \in shorter, t \in Tokens}

Verbs == {VerbAlternatives[i] : i \in 1..Len(VerbAlternatives)}
Gaps == {<<>>, Chars(" "), Chars(" \t")}
StopCodes == {Chars("308209"), Chars("123456")}
RouteTokens == {Chars("B63"), Chars("b63"), Chars("s79-sbs")}
Places == {Chars("times square"), Chars("jfk"), Chars("123456 main st"), Chars("A")}
AuthCodes == {Chars("1234"), Chars("482913")}

StopFormTexts ==
  {v \o g \o c \o r : v \in Verbs \cup {<<>>, Chars("STOP")}, g \in Gaps,
                      c \in StopCodes,
                      r \in {<<>>} \cup {Chars(" ") \o t : t \in RouteTokens}
                                  \cup {Chars("  B63")}}

UberFormTexts ==
  {Chars("uber ") \o p \o Chars(" to ") \o d : p \in Places, d \in Places}
  \cup {Chars("uber auth ") \o a : a \in AuthCodes}
  \cup { Chars("uber confirm"), Chars("Uber Confirm "), Chars("uber status"),
         Chars("uber cancel"), Chars("UBER  CANCEL"), Chars("uber hello"),
         Chars("uber"), Chars("uber to jfk"), Chars("Uber JFK To A") }

SampleTexts ==
  { Chars(""), Chars(" "), Chars("a"), Chars(" a "), Chars("ab"), Chars("?"),
    Chars("how"), Chars("HOW"), Chars(" how "), Chars("how "), Chars("how?"),
    Chars("reset calories"), Chars("Reset Calories"), Chars("reset  calories"),
    Chars("total"), Chars("TOTAL "), Chars("totals"),
    Chars("sub 20"), Chars("SUB  5"), Chars("sub\t007"), Chars("sub 20 x"),
    Chars("sub"), Chars("sub x"), Chars("subs 20"), Chars("sub20"),
    Chars("sub 308209"), Chars("a sub 20"),
    Chars("r"), Chars("R"), Chars(" r"), Chars("refresh"), Chars("Refresh "),
    Chars("rr"), Chars("refresh 308209"),
    Chars("c b63"), Chars("C S79-SBS"), Chars("c 308209"), Chars("c "),
    Chars("c  m15 "), Chars("cb63"),
    Chars("2 eggs and toast"), Chars("pizza"), Chars("12345"), Chars("1234567"),
    Chars("12345 67890"), Chars("x308209y"), Chars("pizza 1234567 cal"),
    Chars("order 123456 fries"), Chars("308209 B63 please"), Chars("308209 + B63"),
    Chars("stopp 308209"), Chars("bus stop 308209 b63"), Chars("3082O9") }

Bodies == SampleTexts \cup StopFormTexts \cup UberFormTexts \cup TokenTexts(MaxTokens)

\* (numMedia > 0, MediaContentType0) as the webhook passes them
MediaInputs ==
  { <<FALSE, null>>, <<TRUE, Chars("image/jpeg")>>, <<TRUE, Chars("video/mp4")>>,
    <<TRUE, null>>, <<FALSE, Chars("image/png")>> }

ParseInputs ==
  {[messageBody |-> b, hasMedia |-> m[1], mediaType |-> m[2]] :
     b \in Bodies, m \in MediaInputs}


-----------------------------------------------------------------------------
(* Clock *)

MaxTicks == 3
\* the clock advances in steps of ten minutes
TickMs == 10 * 60 * 1000

Phones == {"+15550001", "+15550002"}

\* null where the value would be an object, and where it would be an id
nullObject == [isNull |-> TRUE]
nullId == "null"

-----------------------------------------------------------------------------
(* SessionManager, message-handler.js (the same class closes gemini-api.js) *)

\* this.timeout
timeout == 20 * 60 * 1000

\* Map.prototype.set / delete on the entries of this.sessions
mapDelete(m, k) == {e \in m : e.key # k}
mapSet(m, k, v) == mapDelete(m, k) \cup {[key |-> k, value |-> v]}
mapHas(m, k) == \E e \in m : e.key = k
mapGet(m, k) == (CHOOSE e \in m : e.key = k).value

\* saveQuery(phoneNumber, stopCode, route): the sessions map afterwards
saveQuery(m, phoneNumber, stopCode, route, t) ==
  mapSet(m, phoneNumber, [stopCode |-> stopCode, route |-> route, timestamp |-> t])

\* variant: a session expires on reaching the timeout
sessionExpiredAtTimeout(session, t) == t - session.timestamp >= timeout

\* the expiry test of getLastQuery
sessionExpired(session, t) == t - session.timestamp > timeout

\* getLastQuery(phoneNumber): the value returned
getLastQuery(m, phoneNumber, t) ==
  IF ~mapHas(m, phoneNumber) THEN nullObject
  ELSE IF sessionExpired(mapGet(m, phoneNumber), t) THEN nullObject
  ELSE [stopCode |-> mapGet(m, phoneNumber).stopCode,
        route |-> mapGet(m, phoneNumber).route]

\* variant: a read of an unexpired entry renews its timestamp
afterGetLastQueryRenews(m, phoneNumber, t) ==
  IF ~mapHas(m, phoneNumber) THEN m
  ELSE IF sessionExpired(mapGet(m, phoneNumber), t) THEN mapDelete(m, phoneNumber)
  ELSE mapSet(m, phoneNumber, [mapGet(m, phoneNumber) EXCEPT !.timestamp = t])

\* getLastQuery(phoneNumber): the sessions map afterwards (an expired entry
\* is deleted by the read)
afterGetLastQuery(m, phoneNumber, t) ==
  IF mapHas(m, phoneNumber) /\ sessionExpired(mapGet(m, phoneNumber), t)
  THEN mapDelete(m, phoneNumber)
  ELSE m

-----------------------------------------------------------------------------
(* uber-pending.js: tables pending_uber_rides and active_uber_rides *)

\* AND created_at > NOW() - INTERVAL '10 minutes'
PendingIntervalMs == 10 * 60 * 1000

\* a JavaScript value that is undefined; the driver sends it as SQL NULL
undefined == "undefined"

\* The quote objects a getUberQuote revision returns.  The single-product
\* shape carries every column of pending_uber_rides; the products shape
\* (uber-agent.js) carries a products array and addresses only.
SingleProductQuote(pickupAddress, destAddress, price) ==
  [ pickup |-> [address |-> pickupAddress, lat |-> "0", lng |-> "0"],
    destination |-> [address |-> destAddress, lat |-> "0", lng |-> "0"],
    productId |-> "uberx", productName |-> "UberX", priceEstimate |-> price,
    products |-> <<>> ]

ProductsQuote(pickupAddress, destAddress, price) ==
  [ pickup |-> [address |-> pickupAddress, lat |-> undefined, lng |-> undefined],
    destination |-> [address |-> destAddress, lat |-> undefined, lng |-> undefined],
    productId |-> undefined, productName |-> undefined, priceEstimate |-> undefined,
    products |-> << [name |-> "UberX", price |-> price, eta |-> "4 min"] >> ]

\* the row savePendingRide writes for a quote
pendingRow(phone, quote, t) ==
  [ phone |-> phone,
    pickup_address |-> quote.pickup.address,
    destination_address |-> quote.destination.address,
    pickup_lat |-> quote.pickup.lat, pickup_lng |-> quote.pickup.lng,
    dest_lat |-> quote.destination.lat, dest_lng |-> quote.destination.lng,
    product_id |-> quote.productId, product_name |-> quote.productName,
    price_estimate |-> quote.priceEstimate,
    created_at |-> t ]

\* every column but created_at is NOT NULL: an undefined value fails the INSERT
violatesNotNull(row) ==
  \E col \in DOMAIN row \ {"created_at"} : row[col] = undefined

\* variant: a plain INSERT without the conflict clause
upsertKeepOld(table, row) == table \cup {row}

\* INSERT ... ON CONFLICT (phone) DO UPDATE: phone is the primary key
upsert(table, row) == {r \in table : r.phone # row.phone} \cup {row}

\* savePendingRide(phone, quote): whether it throws, and the table afterwards
savePendingRideThrows(quote) == violatesNotNull(pendingRow("", quote, 0))
savePendingRide(table, phone, quote, t) ==
  IF savePendingRideThrows(quote) THEN table
  ELSE upsert(table, pendingRow(phone, quote, t))

\* variant: created_at >= NOW() - INTERVAL '10 minutes'
pendingFreshInclusive(row, t) == row.created_at >= t - PendingIntervalMs

\* the WHERE clause of getPendingRide
pendingFresh(row, t) == row.created_at > t - PendingIntervalMs

selectPending(table, phone, t) ==
  {r \in table : r.phone = phone /\ pendingFresh(r, t)}

\* the object getPendingRide builds from rows[0]
pendingRideOf(row) ==
  [ pickup |-> [address |-> row.pickup_address, lat |-> row.pickup_lat,
                lng |-> row.pickup_lng],
    destination |-> [address |-> row.destination_address, lat |-> row.dest_lat,
                     lng |-> row.dest_lng],
    productId |-> row.product_id, productName |-> row.product_name,
    priceEstimate |-> row.price_estimate,
    products |-> <<>> ]

\* getPendingRide(phone): every value it may return (rows[0] of the SELECT)
getPendingRide(table, phone, t) ==
  IF selectPending(table, phone, t) = {} THEN {nullObject}
  ELSE {pendingRideOf(r) : r \in selectPending(table, phone, t)}

\* variant: the DELETE removes nothing
keepPendingRide(table, phone) == table

\* variant: the DELETE has no WHERE clause
clearEveryPendingRide(table, phone) == {}

clearPendingRide(table, phone) == {r \in table : r.phone # phone}

\* saveActiveRide(phone, requestId)
saveActiveRideThrows(requestId) == requestId = undefined
saveActiveRide(table, phone, requestId, t) ==
  IF saveActiveRideThrows(requestId) THEN table
  ELSE upsert(table, [phone |-> phone, request_id |-> requestId, created_at |-> t])

\* getActiveRide(phone): rows[0]?.request_id || null
\* variant: the SELECT has the ten-minute condition of the pending rides
getActiveRideFresh(table, phone) ==
  IF {r \in table : r.phone = phone /\ pendingFresh(r, now)} = {} THEN {nullId}
  ELSE {r.request_id : r \in {x \in table : x.phone = phone}}

getActiveRide(table, phone) ==
  IF {r \in table : r.phone = phone} = {} THEN {nullId}
  ELSE {IF r.request_id = "" THEN nullId ELSE r.request_id :
          r \in {x \in table : x.phone = phone}}

clearActiveRide(table, phone) == {r \in table : r.phone # phone}

\* variant: the comparison of the DELETE is turned around
cleanupFreshRides(table, t) ==
  {r \in table : ~(r.created_at > t - PendingIntervalMs)}

\* cleanupExpiredRides(): WHERE created_at < NOW() - INTERVAL '10 minutes'
cleanupExpiredRides(table, t) ==
  {r \in table : ~(r.created_at < t - PendingIntervalMs)}

-----------------------------------------------------------------------------
(* Initial state *)

Slots == {"lastBusQuery", "pendingRide", "activeRide"}

NoPut == [isNull |-> TRUE]
NoCall == [op |-> "none"]
NoReq == [From |-> "none"]
NoLookup == [called |-> FALSE]
NoSms == <<>>

DefaultInput == [messageBody |-> <<>>, hasMedia |-> FALSE, mediaType |-> null]

InitParser ==
  /\ input = DefaultInput
  /\ command = NotParsed
  /\ parserUsed = "none"

InitStores ==
  /\ now = 0
  /\ sessions = {}
  /\ pending_uber_rides = {}
  /\ active_uber_rides = {}
  /\ pending_uber_auth = {}
  /\ storeCall = NoCall
  /\ ops = 0
  /\ lastPut = [s \in Slots |-> [p \in Phones |-> NoPut]]

InitCalories ==
  /\ daily_calories = {}
  /\ today = 0
  /\ resets = {}
  /\ calorieCall = NoCall

InitNoFormat ==
  /\ parsedData = [found |-> FALSE, arrivals |-> <<>>]
  /\ responseText = <<>>
  /\ calorieData = NoCall
  /\ agentRun = NoCall

InitWeb ==
  /\ tasks = {}
  /\ req = NoReq
  /\ parsed = NotParsed
  /\ reply = "none"
  /\ res = <<>>
  /\ mtaCall = NoLookup
  /\ agentCall = NoCall
  /\ outbox = NoSms
  /\ lastStop = [p \in Phones |-> NoPut]

-----------------------------------------------------------------------------
(* Parser runs *)

InitParse ==
  /\ input \in ParseInputs
  /\ command = NotParsed
  /\ parserUsed = "none"
  /\ InitStores
  /\ InitWeb
  /\ InitCalories
  /\ InitNoFormat

\* parser.parse(body, numMedia > 0, MediaContentType0), gemini-api.js
RunParse ==
  /\ parserUsed = "none"
  /\ command' = parse(input.messageBody, input.hasMedia, input.mediaType)
  /\ parserUsed' = "gemini"
  /\ UNCHANGED <<formatVars, calorieVars, input, now, storeVars, storeCall, ops, lastPut, webVars>>

\* the same call with the Uber rules in place
RunParseUnified ==
  /\ parserUsed = "none"
  /\ command' = parseUnified(input.messageBody, input.hasMedia, input.mediaType)
  /\ parserUsed' = "unified"
  /\ UNCHANGED <<formatVars, calorieVars, input, now, storeVars, storeCall, ops, lastPut, webVars>>

\* parser.parse(body), message-handler.js
RunParseV1 ==
  /\ parserUsed = "none"
  /\ command' = parseV1(input.messageBody)
  /\ parserUsed' = "v1"
  /\ UNCHANGED <<formatVars, calorieVars, input, now, storeVars, storeCall, ops, lastPut, webVars>>

NextParse == RunParse \/ RunParseUnified \/ RunParseV1

SpecParse == InitParse /\ [][NextParse]_vars

-----------------------------------------------------------------------------
(* The session stores called directly: SessionManager and uber-pending.js *)

MaxCalls == 2

\* values the callers pass to the stores
QueryValues ==
  { [stopCode |-> Chars("308209"), route |-> null],
    [stopCode |-> Chars("123456"), route |-> Chars("B63")] }
Quotes ==
  { SingleProductQuote("Times Square, NY", "JFK Airport", "$20.50"),
    SingleProductQuote("A St, NY", "JFK Airport", "$35.00"),
    ProductsQuote("Times Square, NY", "JFK Airport", Chars("$20.50")) }
RequestIds == {"req-1", "req-2", undefined}

\* history: the write now made to a slot, and the write it replaces
Put(slot, phone, kind, value) ==
  [ isNull |-> FALSE, kind |-> kind, value |-> value, at |-> now,
    prev |-> lastPut[slot][phone] ]
Called(op, phone, result) == [op |-> op, phone |-> phone, result |-> result, at |-> now]

InitStore == InitParser /\ InitStores /\ InitWeb /\ InitCalories /\ InitNoFormat

\* Date.now() and NOW() advance
Tick ==
  /\ now < MaxTicks * TickMs
  /\ now' = now + TickMs
  /\ UNCHANGED <<formatVars, calorieVars, parseVars, storeVars, storeCall, ops, lastPut, webVars>>

StoreSaveQuery ==
  /\ ops < MaxCalls
  /\ \E p \in Phones, q \in QueryValues :
       /\ sessions' = saveQuery(sessions, p, q.stopCode, q.route, now)
       /\ lastPut' = [lastPut EXCEPT !["lastBusQuery"][p] = Put("lastBusQuery", p, "save", q)]
       /\ storeCall' = Called("saveQuery", p, "done")
  /\ ops' = ops + 1
  /\ UNCHANGED <<formatVars, calorieVars, parseVars, now, pending_uber_rides, active_uber_rides, pending_uber_auth, webVars>>

StoreGetLastQuery ==
  /\ ops < MaxCalls
  /\ \E p \in Phones :
       /\ storeCall' = Called("getLastQuery", p, getLastQuery(sessions, p, now))
       /\ sessions' = afterGetLastQuery(sessions, p, now)
  /\ ops' = ops + 1
  /\ UNCHANGED <<formatVars, calorieVars, parseVars, now, pending_uber_rides, active_uber_rides, pending_uber_auth, lastPut,
                 webVars>>

\* SessionManager.clear(phoneNumber)
StoreClear ==
  /\ ops < MaxCalls
  /\ \E p \in Phones :
       /\ sessions' = mapDelete(sessions, p)
       /\ lastPut' = [lastPut EXCEPT !["lastBusQuery"][p] = Put("lastBusQuery", p, "clear", nullObject)]
       /\ storeCall' = Called("clear", p, "done")
  /\ ops' = ops + 1
  /\ UNCHANGED <<formatVars, calorieVars, parseVars, now, pending_uber_rides, active_uber_rides, pending_uber_auth, webVars>>

StoreSavePendingRide ==
  /\ ops < MaxCalls
  /\ \E p \in Phones, q \in Quotes :
       /\ pending_uber_rides' = savePendingRide(pending_uber_rides, p, q, now)
       /\ IF savePendingRideThrows(q)
          THEN /\ storeCall' = Called("savePendingRide", p, "throws")
               /\ UNCHANGED lastPut
          ELSE /\ storeCall' = Called("savePendingRide", p, "done")
               /\ lastPut' = [lastPut EXCEPT !["pendingRide"][p] = Put("pendingRide", p, "save", q)]
  /\ ops' = ops + 1
  /\ UNCHANGED <<formatVars, calorieVars, parseVars, now, sessions, active_uber_rides, pending_uber_auth, webVars>>

StoreGetPendingRide ==
  /\ ops < MaxCalls
  /\ \E p \in Phones :
       \E v \in getPendingRide(pending_uber_rides, p, now) :
         storeCall' = Called("getPendingRide", p, v)
  /\ ops' = ops + 1
  /\ UNCHANGED <<formatVars, calorieVars, parseVars, now, storeVars, lastPut, webVars>>

StoreClearPendingRide ==
  /\ ops < MaxCalls
  /\ \E p \in Phones :
       /\ pending_uber_rides' = clearPendingRide(pending_uber_rides, p)
       /\ lastPut' = [lastPut EXCEPT !["pendingRide"][p] = Put("pendingRide", p, "clear", nullObject)]
       /\ storeCall' = Called("clearPendingRide", p, "done")
  /\ ops' = ops + 1
  /\ UNCHANGED <<formatVars, calorieVars, parseVars, now, sessions, active_uber_rides, pending_uber_auth, webVars>>

StoreSaveActiveRide ==
  /\ ops < MaxCalls
  /\ \E p \in Phones, id \in RequestIds :
       /\ active_uber_rides' = saveActiveRide(active_uber_rides, p, id, now)
       /\ IF saveActiveRideThrows(id)
          THEN /\ storeCall' = Called("saveActiveRide", p, "throws")
               /\ UNCHANGED lastPut
          ELSE /\ storeCall' = Called("saveActiveRide", p, "done")
               /\ lastPut' = [lastPut EXCEPT !["activeRide"][p] = Put("activeRide", p, "save", id)]
  /\ ops' = ops + 1
  /\ UNCHANGED <<formatVars, calorieVars, parseVars, now, sessions, pending_uber_rides, pending_uber_auth, webVars>>

StoreGetActiveRide ==
  /\ ops < MaxCalls
  /\ \E p \in Phones :
       \E v \in getActiveRide(active_uber_rides, p) :
         storeCall' = Called("getActiveRide", p, v)
  /\ ops' = ops + 1
  /\ UNCHANGED <<formatVars, calorieVars, parseVars, now, storeVars, lastPut, webVars>>

StoreClearActiveRide ==
  /\ ops < MaxCalls
  /\ \E p \in Phones :
       /\ active_uber_rides' = clearActiveRide(active_uber_rides, p)
       /\ lastPut' = [lastPut EXCEPT !["activeRide"][p] = Put("activeRide", p, "clear", nullId)]
       /\ storeCall' = Called("clearActiveRide", p, "done")
  /\ ops' = ops + 1
  /\ UNCHANGED <<formatVars, calorieVars, parseVars, now, sessions, pending_uber_rides, pending_uber_auth, webVars>>

StoreCleanupExpiredRides ==
  /\ ops < MaxCalls
  /\ pending_uber_rides' = cleanupExpiredRides(pending_uber_rides, now)
  /\ storeCall' = Called("cleanupExpiredRides", "", "done")
  /\ ops' = ops + 1
  /\ UNCHANGED <<formatVars, calorieVars, parseVars, now, sessions, active_uber_rides, pending_uber_auth, lastPut, webVars>>

NextStore ==
  \/ Tick
  \/ StoreSaveQuery \/ StoreGetLastQuery \/ StoreClear
  \/ StoreSavePendingRide \/ StoreGetPendingRide \/ StoreClearPendingRide
  \/ StoreSaveActiveRide \/ StoreGetActiveRide \/ StoreClearActiveRide
  \/ StoreCleanupExpiredRides

SpecStore == InitStore /\ [][NextStore]_vars

-----------------------------------------------------------------------------
(* Claims about the session stores, checked under SpecStore *)

Saved(w) == ~w.isNull /\ w.kind = "save"

RowsOf(table, p) == {r \in table : r.phone = p}

\* the ride a read returns is the quote q
SameRide(v, q) ==
  /\ "pickup" \in DOMAIN v
  /\ v.pickup.address = q.pickup.address
  /\ v.destination.address = q.destination.address
  /\ v.productId = q.productId
  /\ v.productName = q.productName
  /\ v.priceEstimate = q.priceEstimate

(* C6: a query saved for a phone at time T is what getLastQuery returns at
   every time up to T + 20 minutes, and getLastQuery returns null at every
   later time; the read that finds it expired removes it, and it is absent
   from then on while no new query is saved. *)
C6_BusQueryTtl ==
  /\ \A p \in Phones :
       Saved(lastPut["lastBusQuery"][p]) =>
         getLastQuery(sessions, p, now) =
           IF now <= lastPut["lastBusQuery"][p].at + timeout
           THEN lastPut["lastBusQuery"][p].value
           ELSE nullObject
  /\ (storeCall.op = "getLastQuery"
        /\ Saved(lastPut["lastBusQuery"][storeCall.phone])) =>
       LET w == lastPut["lastBusQuery"][storeCall.phone]
       IN /\ storeCall.result =
               IF storeCall.at <= w.at + timeout THEN w.value ELSE nullObject
          /\ storeCall.at > w.at + timeout => ~mapHas(sessions, storeCall.phone)

C6_Witness ==
  /\ storeCall.op = "getLastQuery"
  /\ Saved(lastPut["lastBusQuery"][storeCall.phone])
  /\ storeCall.at > lastPut["lastBusQuery"][storeCall.phone].at + timeout
  /\ storeCall.result = nullObject
  /\ ~mapHas(sessions, storeCall.phone)
  /\ getLastQuery(sessions, storeCall.phone, now) = nullObject

(* C7: each phone has at most one entry in each slot; while the latest write
   of a slot is a save that has not expired, a read returns the value of
   that save, whatever was written before; the expiry of a pendingRide is
   counted from its latest save. *)
C7_LastWriteWins ==
  /\ \A p \in Phones :
       /\ Cardinality({e \in sessions : e.key = p}) <= 1
       /\ Cardinality(RowsOf(pending_uber_rides, p)) <= 1
       /\ Cardinality(RowsOf(active_uber_rides, p)) <= 1
  /\ \A p \in Phones :
       (Saved(lastPut["lastBusQuery"][p])
          /\ now <= lastPut["lastBusQuery"][p].at + timeout) =>
         getLastQuery(sessions, p, now) = lastPut["lastBusQuery"][p].value
  /\ \A p \in Phones :
       (Saved(lastPut["pendingRide"][p])
          /\ now < lastPut["pendingRide"][p].at + PendingIntervalMs) =>
         \A v \in getPendingRide(pending_uber_rides, p, now) :
           SameRide(v, lastPut["pendingRide"][p].value)
  /\ \A p \in Phones :
       Saved(lastPut["activeRide"][p]) =>
         getActiveRide(active_uber_rides, p) = {lastPut["activeRide"][p].value}
  /\ (storeCall.op = "getPendingRide"
        /\ Saved(lastPut["pendingRide"][storeCall.phone])
        /\ storeCall.at < lastPut["pendingRide"][storeCall.phone].at
                            + PendingIntervalMs) =>
       SameRide(storeCall.result, lastPut["pendingRide"][storeCall.phone].value)
  /\ (storeCall.op = "getActiveRide"
        /\ Saved(lastPut["activeRide"][storeCall.phone])) =>
       storeCall.result = lastPut["activeRide"][storeCall.phone].value

\* two different quotes saved for one phone, the first one now older than
\* the interval, the second one still returned
C7_Witness ==
  \E p \in Phones :
    /\ Saved(lastPut["pendingRide"][p])
    /\ Saved(lastPut["pendingRide"][p].prev)
    /\ lastPut["pendingRide"][p].prev.value # lastPut["pendingRide"][p].value
    /\ lastPut["pendingRide"][p].prev.at + PendingIntervalMs <= now
    /\ now < lastPut["pendingRide"][p].at + PendingIntervalMs
    /\ Cardinality(RowsOf(pending_uber_rides, p)) = 1
    /\ \A v \in getPendingRide(pending_uber_rides, p, now) :
         SameRide(v, lastPut["pendingRide"][p].value)

-----------------------------------------------------------------------------
(* Claims about the parser, checked under SpecParse *)

CommandTypes ==
  { "help", "reset_calories", "total", "subtract", "set_target", "suggestions",
    "image_calorie", "refresh", "stop_query", "service_changes", "uber_quote",
    "uber_confirm", "uber_status", "uber_cancel", "uber_auth", "food_query",
    "error" }

\* the fields each command type carries
CommandFields(type) ==
  CASE type = "subtract" -> {"type", "amount"}
    [] type = "image_calorie" -> {"type", "textContext"}
    [] type = "service_changes" -> {"type", "route"}
    [] type = "stop_query" -> {"type", "stopCode", "route"}
    [] type = "uber_quote" -> {"type", "pickup", "destination"}
    [] type = "uber_auth" -> {"type", "code"}
    [] type = "food_query" -> {"type", "foodDescription"}
    [] type = "error" -> {"type", "message"}
    [] OTHER -> {"type"}

UnifiedRun == parserUsed \in {"gemini", "unified"}
Trimmed == trim(input.messageBody)
Lowered == toLowerCase(Trimmed)
WithImage ==
  /\ input.hasMedia
  /\ input.mediaType # null
  /\ Len(input.mediaType) >= 6
  /\ SubSeq(input.mediaType, 1, 6) = <<"i", "m", "a", "g", "e", "/">>

\* t reads sub, then white space, then digits only; the digits start at i
SubDigitsAt(t, i) ==
  /\ i \in 5..Len(t)
  /\ SubSeq(t, 1, 3) = <<"s", "u", "b">>
  /\ \A j \in 4..(i - 1) : t[j] \in SpaceSet
  /\ \A j \in i..Len(t) : t[j] \in DigitSet
IsSubText(t) == \E i \in 5..Len(t) : SubDigitsAt(t, i)

Pow10 == [k \in 0..9 |-> IF k = 0 THEN 1 ELSE 10 ^ k]
\* the number a digit string denotes
Decimal(d) ==
  LET term[k \in 0..Len(d)] ==
        IF k = 0 THEN 0 ELSE term[k - 1] + DigitValue[d[k]] * Pow10[Len(d) - k]
  IN term[Len(d)]

IsExactText(t) ==
  \/ t \in {Chars("how"), Chars("?"), Chars("reset calories"), Chars("total")}
  \/ IsSubText(t)

HasSixDigitRun(t) ==
  \E i \in 1..(Len(t) - 5) : \A j \in i..(i + 5) : t[j] \in DigitSet

(* C1: parse returns, for every text, media flag and mime type, exactly one
   command whose type is one of the command types, with the fields of that
   type; it never ends without a command. *)
C1_ParseTotal ==
  UnifiedRun =>
    /\ "type" \in DOMAIN command
    /\ command.type \in CommandTypes
    /\ DOMAIN command = CommandFields(command.type)

C1_Witness ==
  /\ parserUsed = "gemini"
  /\ input.messageBody = Chars(" ")
  /\ input.hasMedia /\ input.mediaType = null
  /\ command.type = "error"

(* C2: the exact commands how, ?, reset calories, total and sub N win over an
   attached image; every other text with an attached image/... medium is
   image_calorie carrying the trimmed text; sub N is never a food_query. *)
C2_ExactBeforeMedia ==
  UnifiedRun =>
    /\ Lowered \in {Chars("how"), Chars("?")} => command = [type |-> "help"]
    /\ Lowered = Chars("reset calories") => command = [type |-> "reset_calories"]
    /\ Lowered = Chars("total") => command = [type |-> "total"]
    /\ \A i \in 5..Len(Lowered) :
         SubDigitsAt(Lowered, i) =>
           command = [type |-> "subtract",
                      amount |-> Decimal(SubSeq(Lowered, i, Len(Lowered)))]
    /\ IsSubText(Lowered) => command.type # "food_query"
    /\ (~IsExactText(Lowered) /\ WithImage) =>
         command = [type |-> "image_calorie", textContext |-> Trimmed]

C2_Witness ==
  /\ parserUsed = "gemini"
  /\ WithImage
  /\ \/ Lowered = Chars("total") /\ command.type = "total"
     \/ Lowered = Chars("sub\t007") /\ command = [type |-> "subtract", amount |-> 7]
  \/ /\ parserUsed = "gemini"
     /\ WithImage
     /\ Trimmed = Chars("308209") /\ command.type = "image_calorie"

\* the ways t reads [verb] [space] six digits [space route]: <<a, w>> with the
\* digits at a..a+5 and the route token at w..Len(t) (w = 0: no route)
ClaimVerbs ==
  { <<>>, Chars("stop"), Chars("bus"), Chars("check"), Chars("query"),
    Chars("when"), Chars("time"), Chars("times") }

StopReadings(t) ==
  { <<a, w>> \in (1..Len(t)) \X (0..Len(t)) :
      /\ a + 5 <= Len(t)
      /\ \A j \in a..(a + 5) : t[j] \in DigitSet
      /\ \E v \in ClaimVerbs :
           /\ Len(v) < a
           /\ SubSeq(toLowerCase(t), 1, Len(v)) = v
           /\ \A j \in (Len(v) + 1)..(a - 1) : t[j] \in SpaceSet
      /\ IF w = 0 THEN a + 5 = Len(t)
         ELSE /\ w >= a + 7
              /\ \A j \in (a + 6)..(w - 1) : t[j] \in SpaceSet
              /\ \A j \in w..Len(t) : IsRouteChar(t[j]) }

(* C3: without an image, a trimmed text that reads [verb] six digits [route]
   is a stop_query with exactly those six digits as stopCode and the
   upper-cased route token, or null, as route. *)
C3_StopQuery ==
  (UnifiedRun /\ ~WithImage) =>
    \A rd \in StopReadings(Trimmed) :
      command = [type |-> "stop_query",
                 stopCode |-> SubSeq(Trimmed, rd[1], rd[1] + 5),
                 route |-> IF rd[2] = 0 THEN null
                           ELSE toUpperCase(SubSeq(Trimmed, rd[2], Len(Trimmed)))]

C3_Witness ==
  /\ parserUsed = "gemini"
  /\ ~WithImage
  /\ input.messageBody = Chars("times \t308209 s79-sbs")
  /\ command.type = "stop_query"
  /\ command.route = Chars("S79-SBS")

\* t matches one of the command rules that precede the fallback
MatchesCommandRule(t) ==
  \/ IsExactText(t)
  \/ t \in {Chars("r"), Chars("refresh")}
  \/ (Len(t) >= 2 /\ SubSeq(t, 1, 2) = Chars("c "))
  \/ (Len(t) >= 5 /\ SubSeq(t, 1, 5) = Chars("uber "))

(* C4: without an image, a text that matches no command rule and holds no
   run of six digits is a food_query carrying the trimmed text when that has
   at least two characters, and an error with the help hint otherwise. *)
C4_Fallback ==
  (UnifiedRun /\ ~WithImage /\ ~MatchesCommandRule(Lowered)
     /\ ~HasSixDigitRun(Trimmed)) =>
    command = IF Len(Trimmed) >= 2
              THEN [type |-> "food_query", foodDescription |-> Trimmed]
              ELSE [type |-> "error",
                    message |-> "Send \"how\" for available commands."]

C4_Witness ==
  /\ parserUsed = "gemini"
  /\ ~WithImage
  /\ \/ Trimmed = Chars("ab") /\ command.type = "food_query"
     \/ Trimmed = Chars("a") /\ command.type = "error"

\* what the claim says each Uber form parses to
UberFormsAsClaimed ==
  /\ \A p \in Places, d \in Places :
       Trimmed = Chars("uber ") \o p \o Chars(" to ") \o d =>
         command = [type |-> "uber_quote", pickup |-> p, destination |-> d]
  /\ Lowered = Chars("uber confirm") => command = [type |-> "uber_confirm"]
  /\ Lowered = Chars("uber status") => command = [type |-> "uber_status"]
  /\ Lowered = Chars("uber cancel") => command = [type |-> "uber_cancel"]
  /\ \A a \in AuthCodes :
       Trimmed = Chars("uber auth ") \o a =>
         command = [type |-> "uber_auth", code |-> a]

(* C5 as stated: every message of an Uber form is parsed as that Uber
   command. *)
C5_UberFormsAlways ==
  parserUsed = "unified" => UberFormsAsClaimed

(* C5, amended: a message of an Uber form that has no image attached and
   holds no run of six digits is parsed as that Uber command (and so not as
   food_query). *)
C5_UberForms ==
  (parserUsed = "unified" /\ ~WithImage /\ ~HasSixDigitRun(Trimmed)) =>
    UberFormsAsClaimed

C5_Witness ==
  /\ parserUsed = "unified"
  /\ input.hasMedia /\ ~WithImage
  /\ Trimmed = Chars("uber times square to jfk")
  /\ command = [type |-> "uber_quote", pickup |-> Chars("times square"),
                destination |-> Chars("jfk")]

-----------------------------------------------------------------------------
(* The /sms webhook of the session-based server (server.js, first listing) *)

MaxMessages == 2

\* mtaAPI.getStopArrivals returns the arrival data or throws
MtaOutcomes == {"data", "throws"}

Lookup(stopCode, route, outcome) ==
  [called |-> TRUE, stopCode |-> stopCode, route |-> route, outcome |-> outcome]

\* stands for mtaAPI.formatAsText(data)
ArrivalsText == "<arrivals>"
NoRecentQueryText == "No recent query to refresh. Text a stop code to get started."
TextRToRefresh == "\n\nText R to refresh."
ServiceChangesText ==
  "Service changes for <route>: Feature coming soon. Check mta.info for current alerts."
BusErrorText == "Sorry, there was an error getting bus times. Please try again later."
DefaultErrorText ==
  "Send a food description for calories, or a 6-digit stop code for bus times."

\* req.body.Body of the messages sent to the session-based server
BusBodies ==
  { Chars("308209"), Chars("123456 b63"), Chars("R"), Chars("r "),
    Chars("refresh"), Chars("C b63"), Chars("") }
BusParsed == [b \in BusBodies |-> parseV1(b)]

Request(from, body) == [From |-> from, Body |-> body]

\* res.status(200).send(twiml.toString()); 200 is the default of res.send
send(twiml) == [status |-> 200, twiml |-> twiml]

\* variant: a case that started a detached function does not return after
\* its send, and the statements after the switch run as well
respondFallsThrough(text, detached) ==
  IF detached THEN << send(<<text>>), send(<<text, undefined>>) >>
  ELSE << send(<<text>>) >>

\* the responses of one request: a case that started a detached function
\* sends its acknowledgment and returns; every other path, the catch block
\* included, reaches the one send after the try statement
respond(text, detached) == << send(<<text>>) >>

\* history: the stop_query now handled for a phone
StopSeen(stopCode, route, outcome) ==
  [isNull |-> FALSE, stopCode |-> stopCode, route |-> route, at |-> now,
   outcome |-> outcome]

\* case 'refresh'
SessionRefresh(from, outcome) ==
  LET lastQuery == getLastQuery(sessions, from, now)
  IN /\ sessions' = afterGetLastQuery(sessions, from, now)
     /\ storeCall' = Called("getLastQuery", from, lastQuery)
     /\ IF lastQuery = nullObject
        THEN /\ outcome = "data"
             /\ mtaCall' = NoLookup
             /\ reply' = NoRecentQueryText
        ELSE /\ mtaCall' = Lookup(lastQuery.stopCode, lastQuery.route, outcome)
             /\ reply' = IF outcome = "data" THEN ArrivalsText ELSE BusErrorText
     /\ UNCHANGED <<formatVars, calorieVars, lastPut, lastStop>>

\* case 'stop_query'
SessionStopQuery(from, cmd, outcome) ==
  /\ sessions' = saveQuery(sessions, from, cmd.stopCode, cmd.route, now)
  /\ storeCall' = Called("saveQuery", from, "done")
  /\ lastPut' = [lastPut EXCEPT !["lastBusQuery"][from] =
                   Put("lastBusQuery", from, "save",
                       [stopCode |-> cmd.stopCode, route |-> cmd.route])]
  /\ mtaCall' = Lookup(cmd.stopCode, cmd.route, outcome)
  /\ reply' = IF outcome = "data" THEN ArrivalsText \o TextRToRefresh
              ELSE BusErrorText
  /\ lastStop' = [lastStop EXCEPT ![from] =
                    StopSeen(cmd.stopCode, cmd.route, outcome)]

\* the remaining cases make no call
SessionOther(cmd, outcome) ==
  /\ outcome = "data"
  /\ mtaCall' = NoLookup
  /\ reply' = IF cmd.type = "service_changes" THEN ServiceChangesText
              ELSE IF "message" \in DOMAIN cmd THEN cmd.message
              ELSE DefaultErrorText
  /\ UNCHANGED <<formatVars, calorieVars, sessions, storeCall, lastPut, lastStop>>

\* app.post('/sms'): one inbound message, handled to its response
SmsSession ==
  /\ ops < MaxMessages
  /\ \E from \in Phones, body \in BusBodies, outcome \in MtaOutcomes :
       /\ req' = Request(from, body)
       /\ parsed' = command[body]
       /\ CASE command[body].type = "refresh" -> SessionRefresh(from, outcome)
            [] command[body].type = "stop_query" ->
                 SessionStopQuery(from, command[body], outcome)
            [] OTHER -> SessionOther(command[body], outcome)
  /\ res' = respond(reply', FALSE)
  /\ ops' = ops + 1
  /\ UNCHANGED <<formatVars, calorieVars, parseVars, now, pending_uber_rides, active_uber_rides,
                 pending_uber_auth, tasks, agentCall, outbox>>

InitBus ==
  /\ input = DefaultInput
  /\ command = BusParsed
  /\ parserUsed = "none"
  /\ InitStores
  /\ InitWeb
  /\ InitCalories
  /\ InitNoFormat

NextBus == Tick \/ SmsSession

SpecBus == InitBus /\ [][NextBus]_vars

-----------------------------------------------------------------------------
(* The ride agent and the pending authentication store as the unified      *)
(* router of server.js calls them                                           *)

\* getUberQuote(pickup, destination, phone): what the agent run may end in
getUberQuote ==
  { [kind |-> "throws", message |-> "Max iterations reached without getting a quote"],
    [kind |-> "requiresAuth"] }
  \cup {[kind |-> "quote", quote |-> q] : q \in Quotes}

\* the greedy class [\d.]+ : the index just after the run that starts at i
SpanPrice(s, i) ==
  CHOOSE j \in i..(Len(s) + 1) :
    /\ \A k \in i..(j-1) : IsDigit(s[k]) \/ s[k] = "."
    /\ (j = Len(s) + 1 \/ ~(IsDigit(s[j]) \/ s[j] = "."))

\* parseFloat of a run of digits and dots, counted in cents; the prices carry
\* at most two decimals.  A run without a digit is NaN.
parseFloat(run) ==
  LET intEnd == SpanDigit(run, 1)
      hasDot == intEnd <= Len(run) /\ run[intEnd] = "."
      fracEnd == IF hasDot THEN SpanDigit(run, intEnd + 1) ELSE intEnd
      frac == IF hasDot THEN SubSeq(run, intEnd + 1, fracEnd - 1) ELSE <<>>
  IN IF intEnd = 1 /\ frac = <<>> THEN [nan |-> TRUE]
     ELSE [nan |-> FALSE,
           cents |-> 100 * parseInt(SubSeq(run, 1, intEnd - 1))
                     + parseInt(SubSeq(frac \o <<"0", "0">>, 1, 2))]

\* parsePrice(priceStr): priceStr.match(/\$?([\d.]+)/), then parseFloat
parsePrice(priceStr) ==
  IF priceStr \in {<<>>, null} THEN nullObject
  ELSE IF \A i \in 1..Len(priceStr) : ~(IsDigit(priceStr[i]) \/ priceStr[i] = ".")
  THEN nullObject
  ELSE LET i == CHOOSE k \in 1..Len(priceStr) :
                  /\ IsDigit(priceStr[k]) \/ priceStr[k] = "."
                  /\ \A j \in 1..(k-1) : ~(IsDigit(priceStr[j]) \/ priceStr[j] = ".")
       IN parseFloat(SubSeq(priceStr, i, SpanPrice(priceStr, i) - 1))

\* the tolerance, in dollars: quotedPrice + 3
PriceTolerance == 3

\* "Maximum allowed price" of the booking prompt: (quotedPrice + 3).toFixed(2)
maxAllowedPrice(quotedPrice) ==
  IF quotedPrice = nullObject THEN [nan |-> FALSE, cents |-> 100 * PriceTolerance]
  ELSE IF quotedPrice.nan THEN quotedPrice
  ELSE [nan |-> FALSE, cents |-> quotedPrice.cents + 100 * PriceTolerance]

\* the agent run ends without a JSON answer, or the iterations are used up
NoJson == [success |-> FALSE, error |-> "none"]

\* the final JSON answers of the booking agent (RESPONSE FORMAT of the prompt)
LivePrices == {Chars("$23.50"), Chars("$23.51")}
ConfirmResults ==
  {[success |-> TRUE, currentPrice |-> p, requestId |-> "req-1"] : p \in LivePrices}
  \cup { [success |-> TRUE, currentPrice |-> Chars("$20.50"), requestId |-> undefined],
         [success |-> FALSE, error |-> "price_exceeded",
          currentPrice |-> Chars("$23.51")],
         [success |-> FALSE, error |-> "booking_failed", message |-> undefined],
         NoJson }

\* const product = pendingRide.products?.[productIndex]
hasProduct(pendingRide) ==
  "products" \in DOMAIN pendingRide /\ pendingRide.products # <<>>

\* the answers the agent loop of confirmUberRide may end with; without a
\* product the function throws before the agent is started
confirmAnswers(pendingRide) ==
  IF hasProduct(pendingRide) THEN ConfirmResults ELSE {NoJson}

\* confirmUberRide(pendingRide): what the call ends in, given the agent's answer
confirmUberRide(pendingRide, result) ==
  IF ~hasProduct(pendingRide)
  THEN [kind |-> "throws", message |-> "Invalid product selection"]
  ELSE IF result = NoJson
  THEN [kind |-> "throws",
        message |-> "Max iterations reached without completing booking"]
  ELSE IF ~result.success
  THEN IF result.error = "price_exceeded"
       THEN [kind |-> "throws",
             message |-> "Price increased to <currentPrice> (was <price>). Booking cancelled.",
             currentPrice |-> result.currentPrice,
             price |-> pendingRide.products[1].price]
       ELSE [kind |-> "throws",
             message |-> IF result.message = undefined THEN "Booking failed"
                         ELSE result.message]
  ELSE [kind |-> "booked",
        requestId |-> IF result.requestId = undefined THEN "uber-<now>"
                      ELSE result.requestId,
        price |-> result.currentPrice]

\* getUberStatus(requestId) and cancelUberRide(requestId): what the call ends in
getUberStatus ==
  {[kind |-> "throws",
    message |-> "Uber status requires app login. Check your Uber app for updates."]}
cancelUberRide ==
  {[kind |-> "throws",
    message |-> "Uber cancellation requires app login. Cancel in your Uber app."]}

\* enterUberAuthCode(code, pendingAuth, phone): a quote, a plain login, or a throw
enterUberAuthCode ==
  { [kind |-> "throws", message |-> "Auth code rejected"],
    [kind |-> "loggedIn"] }
  \cup {[kind |-> "quote", quote |-> q] : q \in Quotes}

\* savePendingAuth(phone, action, params): the table afterwards
savePendingAuth(table, phone, action, params, t) ==
  upsert(table, [phone |-> phone, action |-> action, params |-> params,
                 created_at |-> t])

\* getPendingAuth(phone): the unexpired challenge of the phone, or null
getPendingAuth(table, phone, t) ==
  IF {r \in table : r.phone = phone /\ pendingFresh(r, t)} = {} THEN {nullObject}
  ELSE {[action |-> r.action, params |-> r.params] :
          r \in {x \in table : x.phone = phone /\ pendingFresh(x, t)}}

clearPendingAuth(table, phone) == {r \in table : r.phone # phone}

-----------------------------------------------------------------------------
(* The /sms webhook of the unified router (server.js, second listing) *)

\* req.body.To
TwilioNumber == "+15559999"

\* stands for parser.getHelpText()
HelpText == "<help>"
RefreshNotAvailableText == "Refresh not available. Please send your stop code again."
TextHowForAll == "\n\nText \"how\" for all commands."
QuoteAckText == "Getting Uber quote... (this may take a moment)"
ConfirmAckText == "Booking your Uber... (this may take a moment)"
NoPendingRideText ==
  "No pending Uber ride. Text \"uber [pickup] to [destination]\" first."
AuthNeededText ==
  "Uber needs SMS verification. Check your texts from Uber, then reply: uber auth <code>"
\* stand for the interpolated quote and booking messages
QuoteMessage == "<quote>\n\nReply \"uber confirm\" to book."
BookedMessage == "Uber booked!<ride>\n\nText \"uber status\" for updates."
RequestErrorText ==
  "Sorry, there was an error processing your request. Please try again later."
SendHowText == "Send \"how\" for available commands."
\* the texts of the ride cases: acknowledgments, replies and out-of-band
\* messages (<ride> and <status> stand for the interpolated details)
RideText ==
  [ statusAck |-> "Checking ride status...",
    cancelAck |-> "Canceling your Uber...",
    authAck |-> "Entering auth code...",
    pendingStatus |-> "Pending: <ride>\n\nReply \"uber confirm\" to book.",
    noActiveRide |->
      "No active Uber ride. Text \"uber [pickup] to [destination]\" to get started.",
    pendingCleared |-> "Pending Uber request cleared.",
    nothingToCancel |-> "No active or pending Uber ride to cancel.",
    noPendingAuth |->
      "No pending Uber auth. Request a ride first with \"uber [pickup] to [destination]\".",
    status |-> "Uber Status: <status>",
    statusError |-> "Could not get ride status.",
    canceled |-> "Uber ride canceled.",
    loggedIn |-> "Logged into Uber! Now try your request again.",
    quoteError |-> "Could not get Uber quote. Check your addresses.",
    confirmError |-> "Could not book Uber. Try again.",
    cancelError |-> "Could not cancel ride.",
    authError |-> "Auth failed. Try again." ]
\* the message of the error the database driver throws for a NULL in a
\* NOT NULL column
NotNullErrorText == "null value violates not-null constraint"

\* req.body.Body of the messages sent to the unified router
RouterBodies ==
  { Chars("check 123456 b63"), Chars("r"), Chars("uber times square to jfk"),
    Chars("uber confirm"), Chars("") }
RouterParsed == [b \in RouterBodies |-> parseUnified(b, FALSE, null)]

\* twilioClient.messages.create delivers or throws; sendAsyncSMS swallows it
SmsOutcomes == {"sent", "failed"}
\* variant: the two numbers change places
sendAsyncSMSSwapped(to, from, body, outcome) ==
  [sent |-> outcome = "sent", to |-> from, from |-> to, body |-> body]

sendAsyncSMS(to, from, body, outcome) ==
  [sent |-> outcome = "sent", to |-> to, from |-> from, body |-> body]

\* variant: the confirm goes ahead without a pending ride
confirmAlwaysProceeds(pendingRide) == TRUE

\* if (!pendingRide) ... break
confirmHasPending(pendingRide) == pendingRide # nullObject

\* req.body of the unified router: From, To and Body
RouterRequest(from, to, body) == [From |-> from, To |-> to, Body |-> body]

\* variant: a failed delivery is thrown on to the caller
sendAsyncSMSRethrows(outcome) == outcome = "failed"

\* sendAsyncSMS catches what twilioClient.messages.create throws
sendAsyncSMSThrows(outcome) == FALSE

\* the out-of-band messages of a continuation whose try block ends with
\* sendAsyncSMS(body): a throw inside it would reach the catch block, which
\* sends the error's message
TrySend(t, body, outcome) ==
  IF sendAsyncSMSThrows(outcome)
  THEN << sendAsyncSMS(t.From, t.To, body, outcome),
          sendAsyncSMS(t.From, t.To, "<twilio error>", outcome) >>
  ELSE << sendAsyncSMS(t.From, t.To, body, outcome) >>

\* the message of the catch block of a continuation
CatchSend(t, body, outcome) == << sendAsyncSMS(t.From, t.To, body, outcome) >>

\* error.message || '<fallback>'
errorText(message, text) == IF message = "" THEN text ELSE message

\* case 'stop_query'
RouterStopQuery(from, cmd, outcome) ==
  /\ mtaCall' = Lookup(cmd.stopCode, cmd.route, outcome)
  /\ reply' = IF outcome = "data" THEN ArrivalsText \o TextHowForAll
              ELSE RequestErrorText
  /\ lastStop' = [lastStop EXCEPT ![from] =
                    StopSeen(cmd.stopCode, cmd.route, outcome)]
  /\ UNCHANGED <<formatVars, calorieVars, storeCall, tasks, storeVars, lastPut>>

\* case 'uber_quote': acknowledge, and run the quote detached
RouterUberQuote(from, to, cmd) ==
  /\ reply' = QuoteAckText
  /\ tasks' = tasks \cup {[id |-> ops, kind |-> "quote", From |-> from,
                           To |-> to, pickup |-> cmd.pickup,
                           destination |-> cmd.destination]}
  /\ mtaCall' = NoLookup
  /\ UNCHANGED <<formatVars, calorieVars, storeCall, lastStop, storeVars, lastPut>>

\* case 'uber_confirm'
RouterUberConfirm(from, to) ==
  \E pendingRide \in getPendingRide(pending_uber_rides, from, now) :
    /\ storeCall' = Called("getPendingRide", from, pendingRide)
    /\ IF ~confirmHasPending(pendingRide)
       THEN /\ reply' = NoPendingRideText
            /\ UNCHANGED tasks
       ELSE /\ reply' = ConfirmAckText
            /\ tasks' = tasks \cup {[id |-> ops, kind |-> "confirm", From |-> from,
                                     To |-> to, pendingRide |-> pendingRide]}
    /\ mtaCall' = NoLookup
    /\ UNCHANGED <<formatVars, calorieVars, lastStop, storeVars, lastPut>>

\* case 'uber_status'
RouterUberStatus(from, to) ==
  \E activeRequestId \in getActiveRide(active_uber_rides, from),
     pending \in getPendingRide(pending_uber_rides, from, now) :
    /\ IF activeRequestId = nullId
       THEN /\ storeCall' = Called("getPendingRide", from, pending)
            /\ reply' = IF pending # nullObject THEN RideText.pendingStatus
                        ELSE RideText.noActiveRide
            /\ UNCHANGED tasks
       ELSE /\ storeCall' = Called("getActiveRide", from, activeRequestId)
            /\ reply' = RideText.statusAck
            /\ tasks' = tasks \cup {[id |-> ops, kind |-> "status", From |-> from,
                                     To |-> to, requestId |-> activeRequestId]}
    /\ mtaCall' = NoLookup
    /\ UNCHANGED <<formatVars, calorieVars, lastStop, storeVars, lastPut>>

\* variant: the pending ride is looked at before the active ride
cancelPendingFirst(activeId, pendingToCancel) ==
  activeId # nullId /\ pendingToCancel = nullObject

\* if (activeId) ...: the active ride is cancelled whatever is pending
\* variant: the cancellation starts whether or not there is an active ride
cancelsWithoutRide(activeId, pendingToCancel) == TRUE

cancelsActive(activeId, pendingToCancel) == activeId # nullId

\* case 'uber_cancel'
RouterUberCancel(from, to) ==
  \E activeId \in getActiveRide(active_uber_rides, from),
     pendingToCancel \in getPendingRide(pending_uber_rides, from, now) :
    /\ IF cancelsActive(activeId, pendingToCancel)
       THEN /\ storeCall' = Called("getActiveRide", from, activeId)
            /\ reply' = RideText.cancelAck
            /\ tasks' = tasks \cup {[id |-> ops, kind |-> "cancel", From |-> from,
                                     To |-> to, requestId |-> activeId]}
            /\ UNCHANGED <<formatVars, calorieVars, storeVars, lastPut>>
       ELSE IF pendingToCancel # nullObject
       THEN /\ storeCall' = Called("clearPendingRide", from, "done")
            /\ pending_uber_rides' = clearPendingRide(pending_uber_rides, from)
            /\ lastPut' = [lastPut EXCEPT !["pendingRide"][from] =
                             Put("pendingRide", from, "clear", nullObject)]
            /\ reply' = RideText.pendingCleared
            /\ UNCHANGED <<formatVars, calorieVars, tasks, sessions, active_uber_rides, pending_uber_auth>>
       ELSE /\ storeCall' = Called("getPendingRide", from, pendingToCancel)
            /\ reply' = RideText.nothingToCancel
            /\ UNCHANGED <<formatVars, calorieVars, tasks, storeVars, lastPut>>
    /\ mtaCall' = NoLookup
    /\ UNCHANGED lastStop

\* case 'uber_auth'
RouterUberAuth(from, to, cmd) ==
  \E pendingAuth \in getPendingAuth(pending_uber_auth, from, now) :
    /\ storeCall' = Called("getPendingAuth", from, pendingAuth)
    /\ IF pendingAuth = nullObject
       THEN /\ reply' = RideText.noPendingAuth
            /\ UNCHANGED tasks
       ELSE /\ reply' = RideText.authAck
            /\ tasks' = tasks \cup {[id |-> ops, kind |-> "auth", From |-> from,
                                     To |-> to, code |-> cmd.code,
                                     pendingAuth |-> pendingAuth]}
    /\ mtaCall' = NoLookup
    /\ UNCHANGED <<formatVars, calorieVars, lastStop, storeVars, lastPut>>

\* the cases that only reply
RouterReplyOnly(cmd) ==
  /\ reply' = CASE cmd.type = "help" -> HelpText
                [] cmd.type = "refresh" -> RefreshNotAvailableText
                [] cmd.type = "service_changes" -> ServiceChangesText
                [] OTHER -> IF "message" \in DOMAIN cmd THEN cmd.message
                            ELSE SendHowText
  /\ mtaCall' = NoLookup
  /\ UNCHANGED <<formatVars, calorieVars, storeCall, tasks, lastStop, storeVars, lastPut>>

\* switch (parsed.type)
Dispatch(from, to, cmd, outcome) ==
  CASE cmd.type = "stop_query" -> RouterStopQuery(from, cmd, outcome)
    [] cmd.type = "uber_quote" -> outcome = "data" /\ RouterUberQuote(from, to, cmd)
    [] cmd.type = "uber_confirm" -> outcome = "data" /\ RouterUberConfirm(from, to)
    [] cmd.type = "uber_status" -> outcome = "data" /\ RouterUberStatus(from, to)
    [] cmd.type = "uber_cancel" -> outcome = "data" /\ RouterUberCancel(from, to)
    [] cmd.type = "uber_auth" -> outcome = "data" /\ RouterUberAuth(from, to, cmd)
    [] OTHER -> outcome = "data" /\ RouterReplyOnly(cmd)

\* app.post('/sms'): one inbound message, handled to its response
Sms ==
  /\ ops < MaxMessages
  /\ \E from \in Phones, body \in RouterBodies, outcome \in MtaOutcomes :
       /\ req' = RouterRequest(from, TwilioNumber, body)
       /\ parsed' = command[body]
       /\ Dispatch(from, TwilioNumber, command[body], outcome)
  /\ res' = respond(reply', tasks' # tasks)
  /\ ops' = ops + 1
  /\ UNCHANGED <<formatVars, calorieVars, parseVars, now, agentCall, outbox>>

\* the detached continuation of uber_quote, from getUberQuote's return on
QuoteContinuation ==
  \E t \in tasks, r \in getUberQuote, delivery \in SmsOutcomes :
    /\ t.kind = "quote"
    /\ tasks' = tasks \ {t}
    /\ agentCall' = [op |-> "getUberQuote", pickup |-> t.pickup,
                     destination |-> t.destination, phone |-> t.From,
                     result |-> r.kind, answer |-> r]
    /\ CASE r.kind = "throws" ->
              /\ outbox' = CatchSend(t, errorText(r.message, RideText.quoteError), delivery)
              /\ UNCHANGED <<formatVars, calorieVars, storeVars, lastPut>>
         [] r.kind = "requiresAuth" ->
              /\ pending_uber_auth' =
                   savePendingAuth(pending_uber_auth, t.From, "quote",
                     [pickup |-> t.pickup, destination |-> t.destination], now)
              /\ outbox' = TrySend(t, AuthNeededText, delivery)
              /\ UNCHANGED <<formatVars, calorieVars, sessions, pending_uber_rides, active_uber_rides,
                             lastPut>>
         [] OTHER ->
              /\ pending_uber_rides' =
                   savePendingRide(pending_uber_rides, t.From, r.quote, now)
              /\ IF savePendingRideThrows(r.quote)
                 THEN /\ outbox' = CatchSend(t, errorText(NotNullErrorText, RideText.quoteError),
                                               delivery)
                      /\ UNCHANGED lastPut
                 ELSE /\ outbox' = TrySend(t, QuoteMessage, delivery)
                      /\ lastPut' = [lastPut EXCEPT !["pendingRide"][t.From] =
                                       Put("pendingRide", t.From, "save", r.quote)]
              /\ UNCHANGED <<formatVars, calorieVars, sessions, active_uber_rides, pending_uber_auth>>
    /\ UNCHANGED <<formatVars, calorieVars, parseVars, now, storeCall, ops, req, parsed, reply, res, mtaCall,
                   lastStop>>

\* the detached continuation of uber_confirm, from confirmUberRide's return on
ConfirmContinuation ==
  \E t \in tasks, delivery \in SmsOutcomes :
    /\ t.kind = "confirm"
    /\ \E result \in confirmAnswers(t.pendingRide) :
         LET ride == confirmUberRide(t.pendingRide, result)
         IN /\ agentCall' = [op |-> "confirmUberRide", phone |-> t.From,
                             result |-> ride.kind, pendingRide |-> t.pendingRide,
                             answer |-> result, ride |-> ride]
            /\ IF ride.kind = "booked"
               THEN /\ active_uber_rides' =
                         saveActiveRide(active_uber_rides, t.From, ride.requestId, now)
                    /\ pending_uber_rides' =
                         clearPendingRide(pending_uber_rides, t.From)
                    /\ lastPut' =
                         [lastPut EXCEPT
                            !["activeRide"][t.From] =
                               Put("activeRide", t.From, "save", ride.requestId),
                            !["pendingRide"][t.From] =
                               Put("pendingRide", t.From, "clear", nullObject)]
                    /\ outbox' = TrySend(t, BookedMessage, delivery)
               ELSE /\ outbox' = CatchSend(t, errorText(ride.message, RideText.confirmError),
                                         delivery)
                    /\ UNCHANGED <<formatVars, calorieVars, pending_uber_rides, active_uber_rides, lastPut>>
    /\ tasks' = tasks \ {t}
    /\ UNCHANGED <<formatVars, calorieVars, parseVars, now, sessions, pending_uber_auth, storeCall, ops,
                   req, parsed, reply, res, mtaCall, lastStop>>

\* ['completed', 'rider_canceled', 'driver_canceled'].includes(status.status)
TerminalStatuses == {"completed", "rider_canceled", "driver_canceled"}

\* variant: the active ride is cleared whatever the status call ends in
statusAlwaysClears(table, phone, r) == clearActiveRide(table, phone)

\* the active rides after the continuation of uber_status
statusEffect(table, phone, r) ==
  IF r.kind = "status" /\ r.status \in TerminalStatuses
  THEN clearActiveRide(table, phone)
  ELSE table

\* the detached continuation of uber_status
StatusContinuation ==
  \E t \in tasks, r \in getUberStatus, delivery \in SmsOutcomes :
    /\ t.kind = "status"
    /\ tasks' = tasks \ {t}
    /\ agentCall' = [op |-> "getUberStatus", phone |-> t.From,
                     result |-> r.kind, requestId |-> t.requestId,
                     status |-> IF r.kind = "status" THEN r.status ELSE "none"]
    /\ active_uber_rides' = statusEffect(active_uber_rides, t.From, r)
    /\ lastPut' = IF active_uber_rides' = active_uber_rides THEN lastPut
                  ELSE [lastPut EXCEPT !["activeRide"][t.From] =
                          Put("activeRide", t.From, "clear", nullId)]
    /\ outbox' = IF r.kind = "throws"
                 THEN CatchSend(t, RideText.statusError, delivery)
                 ELSE TrySend(t, RideText.status, delivery)
    /\ UNCHANGED <<formatVars, calorieVars, parseVars, now, sessions, pending_uber_rides, pending_uber_auth,
                   storeCall, ops, req, parsed, reply, res, mtaCall, lastStop>>

\* the active rides after the continuation of uber_cancel:
\* clearActiveRide runs only when cancelUberRide has returned
cancelEffect(table, phone, r) ==
  IF r.kind = "throws" THEN table ELSE clearActiveRide(table, phone)

\* the detached continuation of uber_cancel
CancelContinuation ==
  \E t \in tasks, r \in cancelUberRide, delivery \in SmsOutcomes :
    /\ t.kind = "cancel"
    /\ tasks' = tasks \ {t}
    /\ agentCall' = [op |-> "cancelUberRide", phone |-> t.From,
                     result |-> r.kind, requestId |-> t.requestId]
    /\ active_uber_rides' = cancelEffect(active_uber_rides, t.From, r)
    /\ IF r.kind = "throws"
       THEN /\ outbox' = CatchSend(t, errorText(r.message, RideText.cancelError), delivery)
            /\ UNCHANGED lastPut
       ELSE /\ lastPut' = [lastPut EXCEPT !["activeRide"][t.From] =
                             Put("activeRide", t.From, "clear", nullId)]
            /\ outbox' = TrySend(t, RideText.canceled, delivery)
    /\ UNCHANGED <<formatVars, calorieVars, parseVars, now, sessions, pending_uber_rides, pending_uber_auth,
                   storeCall, ops, req, parsed, reply, res, mtaCall, lastStop>>

\* variant: the challenge is cleared before the code is entered
authClearsFirst(table, phone, r) == clearPendingAuth(table, phone)

\* the pending challenges after the continuation of uber_auth:
\* clearPendingAuth runs only when enterUberAuthCode has returned
authEffect(table, phone, r) ==
  IF r.kind = "throws" THEN table ELSE clearPendingAuth(table, phone)

\* the detached continuation of uber_auth
AuthContinuation ==
  \E t \in tasks, r \in enterUberAuthCode, delivery \in SmsOutcomes :
    /\ t.kind = "auth"
    /\ tasks' = tasks \ {t}
    /\ agentCall' = [op |-> "enterUberAuthCode", phone |-> t.From,
                     result |-> r.kind, code |-> t.code,
                     pendingAuth |-> t.pendingAuth]
    /\ pending_uber_auth' = authEffect(pending_uber_auth, t.From, r)
    /\ CASE r.kind = "throws" ->
              /\ outbox' = CatchSend(t, errorText(r.message, RideText.authError), delivery)
              /\ UNCHANGED <<formatVars, calorieVars, pending_uber_rides, lastPut>>
         [] r.kind = "quote" ->
              /\ pending_uber_rides' =
                   savePendingRide(pending_uber_rides, t.From, r.quote, now)
              /\ IF savePendingRideThrows(r.quote)
                 THEN /\ outbox' = CatchSend(t, errorText(NotNullErrorText, RideText.authError),
                                               delivery)
                      /\ UNCHANGED lastPut
                 ELSE /\ outbox' = TrySend(t, QuoteMessage, delivery)
                      /\ lastPut' = [lastPut EXCEPT !["pendingRide"][t.From] =
                                       Put("pendingRide", t.From, "save", r.quote)]
         [] OTHER ->
              /\ outbox' = TrySend(t, RideText.loggedIn, delivery)
              /\ UNCHANGED <<formatVars, calorieVars, pending_uber_rides, lastPut>>
    /\ UNCHANGED <<formatVars, calorieVars, parseVars, now, sessions, active_uber_rides, storeCall, ops,
                   req, parsed, reply, res, mtaCall, lastStop>>

Next == Tick \/ Sms \/ QuoteContinuation \/ ConfirmContinuation

InitRouter ==
  /\ input = DefaultInput
  /\ command = RouterParsed
  /\ parserUsed = "none"
  /\ InitStores
  /\ InitWeb
  /\ InitCalories
  /\ InitNoFormat

Spec == InitRouter /\ [][Next]_vars

-----------------------------------------------------------------------------
(* The ride commands of the unified router, started on a database that an   *)
(* earlier run has written                                                   *)

MaxRideMessages == 2

\* req.body.From and req.body.To of the ride messages: the service is
\* reached at two numbers, and each phone texts one of them
SecondNumber == "+15558888"
Arrivals ==
  { [From |-> "+15550001", To |-> SecondNumber],
    [From |-> "+15550002", To |-> TwilioNumber] }

\* req.body.Body of the ride messages
RideBodies ==
  { Chars("uber times square to jfk"), Chars("uber confirm"),
    Chars("uber status"), Chars("uber cancel"), Chars("uber auth 4829") }
RideParsed == [b \in RideBodies |-> parseUnified(b, FALSE, null)]

\* the rows an earlier run has left for the first phone
FirstPhone == "+15550001"
StoredQuote == SingleProductQuote("A St, NY", "JFK Airport", "$35.00")
StoredPending == {pendingRow(FirstPhone, StoredQuote, 0)}
StoredActive == {[phone |-> FirstPhone, request_id |-> "req-0", created_at |-> 0]}
StoredAuth ==
  {[phone |-> FirstPhone, action |-> "quote",
    params |-> [pickup |-> Chars("a st"), destination |-> Chars("jfk")],
    created_at |-> 0]}

\* an accepted uber_confirm whose pending ride carries a product, as
\* getUberQuote of uber-agent.js returns it
AcceptedConfirm ==
  [ id |-> 0 - 1, kind |-> "confirm", From |-> FirstPhone, To |-> SecondNumber,
    pendingRide |-> ProductsQuote("A St, NY", "JFK Airport", Chars("$20.50")) ]

\* the databases the router is started on, and the continuation in flight
StoredDatabases ==
  { [pending |-> {}, active |-> {}, auth |-> {}, tasks |-> {}],
    [pending |-> StoredPending, active |-> StoredActive, auth |-> {}, tasks |-> {}],
    [pending |-> {}, active |-> {}, auth |-> StoredAuth, tasks |-> {}],
    [pending |-> StoredPending, active |-> {}, auth |-> {},
     tasks |-> {AcceptedConfirm}] }

InitRide ==
  /\ input = DefaultInput
  /\ command = RideParsed
  /\ parserUsed = "none"
  /\ now = 0
  /\ sessions = {}
  /\ \E db \in StoredDatabases :
       /\ pending_uber_rides = db.pending
       /\ active_uber_rides = db.active
       /\ pending_uber_auth = db.auth
       /\ tasks = db.tasks
  /\ storeCall = NoCall
  /\ ops = 0
  /\ InitCalories
  /\ InitNoFormat
  /\ lastPut = [s \in Slots |-> [p \in Phones |-> NoPut]]
  /\ req = NoReq
  /\ parsed = NotParsed
  /\ reply = "none"
  /\ res = <<>>
  /\ mtaCall = NoLookup
  /\ agentCall = NoCall
  /\ outbox = NoSms
  /\ lastStop = [p \in Phones |-> NoPut]

\* app.post('/sms') for the ride messages
SmsRide ==
  /\ ops < MaxRideMessages
  /\ \E a \in Arrivals, body \in RideBodies :
       /\ req' = RouterRequest(a.From, a.To, body)
       /\ parsed' = command[body]
       /\ Dispatch(a.From, a.To, command[body], "data")
  /\ res' = respond(reply', tasks' # tasks)
  /\ ops' = ops + 1
  /\ UNCHANGED <<formatVars, calorieVars, parseVars, now, agentCall, outbox>>

NextRide ==
  \/ SmsRide
  \/ QuoteContinuation
  \/ ConfirmContinuation
  \/ StatusContinuation
  \/ CancelContinuation
  \/ AuthContinuation

SpecRide == InitRide /\ [][NextRide]_vars

MaxIdleTicks == 1
\* the time from the run that wrote the database to the first message passes
\* in steps of thirty minutes
IdleMs == 30 * 60 * 1000

\* NOW() advances before the first message arrives
Idle ==
  /\ ops = 0
  /\ now < MaxIdleTicks * IdleMs
  /\ now' = now + IdleMs
  /\ UNCHANGED <<formatVars, calorieVars, parseVars, storeVars, storeCall, ops, lastPut, webVars>>

\* the ride commands on a database that has aged
NextRideClock == Idle \/ NextRide

SpecRideClock == InitRide /\ [][NextRideClock]_vars

-----------------------------------------------------------------------------
(* Claims about the webhooks *)

\* the step handles one inbound message of the given command type
Handles(type) == ops' = ops + 1 /\ parsed'.type = type

(* C8: a refresh from a phone whose most recent stop_query is no older than
   the 20 minute TTL calls the transit lookup with the stopCode and route of
   that stop_query; a refresh from a phone without such a query makes no
   transit lookup. *)
C8_RefreshRequeries ==
  [][ Handles("refresh") =>
        IF ~lastStop[req'.From].isNull
             /\ now <= lastStop[req'.From].at + timeout
        THEN /\ mtaCall'.called
             /\ mtaCall'.stopCode = lastStop[req'.From].stopCode
             /\ mtaCall'.route = lastStop[req'.From].route
        ELSE ~mtaCall'.called ]_vars

(* C9: handling a stop_query whose transit lookup throws leaves the stored
   bus queries as they were before the message. *)
C9_FailedLookupKeepsQuery ==
  [][ (Handles("stop_query") /\ mtaCall'.called /\ mtaCall'.outcome = "throws")
        => sessions' = sessions ]_vars

\* the phone has a pending ride younger than the interval
HasUnexpiredPendingRide(p) ==
  \E r \in pending_uber_rides :
    r.phone = p /\ now - r.created_at < PendingIntervalMs

(* C10: handling an uber_confirm from a phone without an unexpired pending
   ride answers with the no-pending-ride text in the response itself, calls
   no ride agent, starts no detached continuation, sends no out-of-band
   message and leaves every session store as it was. *)
C10_ConfirmWithoutQuote ==
  [][ (Handles("uber_confirm") /\ ~HasUnexpiredPendingRide(req'.From)) =>
        /\ reply' = NoPendingRideText
        /\ agentCall' = agentCall
        /\ tasks' = tasks
        /\ outbox' = outbox
        /\ storeVars' = storeVars
        /\ lastPut' = lastPut ]_vars

\* a quote was saved, its interval passed, and the confirm that followed
\* found nothing: the expired row is still in the table
C10_Witness ==
  /\ parsed.type = "uber_confirm"
  /\ reply = NoPendingRideText
  /\ storeCall.op = "getPendingRide"
  /\ storeCall.phone = req.From
  /\ storeCall.result = nullObject
  /\ storeCall.at = now
  /\ Saved(lastPut["pendingRide"][req.From])
  /\ RowsOf(pending_uber_rides, req.From) # {}
  /\ tasks = {}
  /\ agentCall.op = "getUberQuote"
  /\ outbox[1].body = QuoteMessage

-----------------------------------------------------------------------------
(* Claims about the ride commands *)

\* the step is the continuation of an accepted command of the given kind
Continues(op) == ops' = ops /\ tasks' # tasks /\ agentCall'.op = op

\* the task the step completes
Completed == CHOOSE t \in tasks : t \notin tasks'

\* the live price the agent reported is more than the tolerance above the
\* price of the selected product
LivePriceExceeds(call) ==
  /\ "currentPrice" \in DOMAIN call.answer
  /\ LET live == parsePrice(call.answer.currentPrice)
         quoted == parsePrice(call.pendingRide.products[1].price)
     IN /\ live # nullObject /\ ~live.nan
        /\ quoted # nullObject /\ ~quoted.nan
        /\ live.cents > maxAllowedPrice(quoted).cents

(* C11: whenever the live price the ride agent reports during uber_confirm
   is more than $3 above the quoted price, confirmUberRide throws the price
   error that names both prices, no booking is returned, no active ride is
   saved and the pending ride is not cleared. *)
C11_PriceSafety ==
  [][ (Continues("confirmUberRide") /\ LivePriceExceeds(agentCall')) =>
        /\ agentCall'.ride.kind = "throws"
        /\ "currentPrice" \in DOMAIN agentCall'.ride
        /\ agentCall'.ride.currentPrice = agentCall'.answer.currentPrice
        /\ agentCall'.ride.price = agentCall'.pendingRide.products[1].price
        /\ active_uber_rides' = active_uber_rides
        /\ pending_uber_rides' = pending_uber_rides ]_vars

(* C12: when confirmUberRide returns a booking, the continuation saves the
   returned request id as the phone's active ride and clears its pending
   ride, so that getActiveRide then returns that id and getPendingRide
   returns null; when confirmUberRide throws, the active rides are left as
   they were. *)
C12_ConfirmEffect ==
  [][ Continues("confirmUberRide") =>
        IF agentCall'.ride.kind = "booked"
        THEN /\ getActiveRide(active_uber_rides', agentCall'.phone)
                  = {agentCall'.ride.requestId}
             /\ getPendingRide(pending_uber_rides', agentCall'.phone, now')
                  = {nullObject}
        ELSE active_uber_rides' = active_uber_rides ]_vars

\* a confirm was booked for a phone that had a pending ride and no active
\* ride: the request id is now its active ride and the pending ride is gone
C12_Witness ==
  /\ agentCall.op = "confirmUberRide"
  /\ agentCall.ride.kind = "booked"
  /\ ops = 0
  /\ tasks = {}
  /\ getActiveRide(active_uber_rides, agentCall.phone) = {agentCall.ride.requestId}
  /\ RowsOf(pending_uber_rides, agentCall.phone) = {}
  /\ lastPut["pendingRide"][agentCall.phone].kind = "clear"
  /\ lastPut["activeRide"][agentCall.phone].value = agentCall.ride.requestId

(* C13: when getUberQuote returns a quote, the continuation of uber_quote
   saves it as the sender's pending ride and writes no pending
   authentication; when it returns an authentication challenge, the pending
   authentication (action 'quote' with the pickup and destination) is saved,
   no pending ride is written and the message tells the user to reply
   'uber auth <code>'; when it throws, neither store is written. *)
C13_QuoteEffect ==
  [][ Continues("getUberQuote") =>
        CASE agentCall'.answer.kind = "quote" ->
               /\ \E v \in getPendingRide(pending_uber_rides', agentCall'.phone, now') :
                    SameRide(v, agentCall'.answer.quote)
               /\ pending_uber_auth' = pending_uber_auth
          [] agentCall'.answer.kind = "requiresAuth" ->
               /\ getPendingAuth(pending_uber_auth', agentCall'.phone, now')
                    = {[action |-> "quote",
                        params |-> [pickup |-> agentCall'.pickup,
                                    destination |-> agentCall'.destination]]}
               /\ pending_uber_rides' = pending_uber_rides
               /\ outbox'[1].body = AuthNeededText
          [] OTHER ->
               /\ pending_uber_rides' = pending_uber_rides
               /\ pending_uber_auth' = pending_uber_auth ]_vars

(* C14 as stated: once the continuation of an uber_auth command that found
   a pending authentication has finished, that phone has no pending
   authentication. *)
C14_AuthAlwaysConsumed ==
  [][ Continues("enterUberAuthCode") =>
        getPendingAuth(pending_uber_auth', agentCall'.phone, now') = {nullObject}
    ]_vars

(* C14: once the continuation of an uber_auth command that found a pending
   authentication has finished and enterUberAuthCode has returned, that
   phone has no pending authentication; when enterUberAuthCode throws the
   pending authentication is kept.  An uber_auth from a phone without a
   pending authentication gets the 'No pending Uber auth' reply and starts
   no continuation. *)
C14_AuthConsumed ==
  [][ /\ Continues("enterUberAuthCode") =>
           IF agentCall'.result = "throws"
           THEN pending_uber_auth' = pending_uber_auth
           ELSE getPendingAuth(pending_uber_auth', agentCall'.phone, now')
                  = {nullObject}
      /\ (Handles("uber_auth")
            /\ getPendingAuth(pending_uber_auth, req'.From, now) = {nullObject})
           => reply' = RideText.noPendingAuth /\ tasks' = tasks ]_vars

\* the code entry of a phone returned, and its next uber_auth found nothing
C14_Witness ==
  /\ ops = 2
  /\ parsed.type = "uber_auth"
  /\ reply = RideText.noPendingAuth
  /\ agentCall.op = "enterUberAuthCode"
  /\ agentCall.phone = req.From
  /\ agentCall.result # "throws"
  /\ RowsOf(pending_uber_auth, req.From) = {}
  /\ tasks = {}

\* what a status lookup may end in: the statuses of a ride, or a throw
StatusResults ==
  getUberStatus
  \cup {[kind |-> "status", status |-> st] :
          st \in TerminalStatuses \cup {"processing", "accepted", "in_progress"}}

(* C15: the continuation of an uber_status that found an active ride calls
   the status lookup for that request id and clears the phone's active ride
   exactly when the returned status is completed, rider_canceled or
   driver_canceled; for any other status, and when the lookup throws, the
   active rides are left as they were.  An uber_status starts the
   continuation exactly when the phone has an active ride. *)
C15_StatusEffect ==
  [][ /\ Continues("getUberStatus") =>
           /\ agentCall'.requestId = Completed.requestId
           /\ agentCall'.phone = Completed.From
           /\ IF agentCall'.status \in TerminalStatuses
              THEN getActiveRide(active_uber_rides', agentCall'.phone) = {nullId}
              ELSE active_uber_rides' = active_uber_rides
      /\ \A p \in Phones, r \in StatusResults :
           statusEffect(active_uber_rides, p, r) =
             IF r.kind = "status" /\ r.status \in TerminalStatuses
             THEN {x \in active_uber_rides : x.phone # p}
             ELSE active_uber_rides
      /\ Handles("uber_status") =>
           /\ active_uber_rides' = active_uber_rides
           /\ IF getActiveRide(active_uber_rides, req'.From) = {nullId}
              THEN tasks' = tasks
              ELSE \E t \in tasks' \ tasks :
                     /\ t.kind = "status" /\ t.From = req'.From
                     /\ {t.requestId} = getActiveRide(active_uber_rides, req'.From)
    ]_vars

\* the status lookup for a phone's active ride has thrown, and the ride is
\* still the phone's active ride
C15_Witness ==
  /\ parsed.type = "uber_status"
  /\ reply = RideText.statusAck
  /\ agentCall.op = "getUberStatus"
  /\ agentCall.result = "throws"
  /\ agentCall.phone = req.From
  /\ getActiveRide(active_uber_rides, req.From) = {agentCall.requestId}
  /\ outbox[1].body = RideText.statusError
  /\ tasks = {}

\* what a cancellation may end in: done, or a throw
CancelResults == cancelUberRide \cup {[kind |-> "done"]}

(* C16: an uber_cancel from a phone with an active ride starts the
   cancellation of that ride and leaves the pending rides as they were,
   also when the phone has a pending ride; the active ride is cleared only
   when cancelUberRide has returned and is kept when it throws; an
   uber_cancel from a phone with only a pending ride clears it while
   handling the message, with no continuation and no ride agent call. *)
C16_CancelPrefersActive ==
  [][ /\ Handles("uber_cancel") =>
           /\ active_uber_rides' = active_uber_rides
           /\ agentCall' = agentCall
           /\ IF getActiveRide(active_uber_rides, req'.From) # {nullId}
              THEN /\ pending_uber_rides' = pending_uber_rides
                   /\ \E t \in tasks' \ tasks :
                        /\ t.kind = "cancel" /\ t.From = req'.From
                        /\ {t.requestId} = getActiveRide(active_uber_rides, req'.From)
              ELSE /\ tasks' = tasks
                   /\ IF getPendingRide(pending_uber_rides, req'.From, now)
                           # {nullObject}
                      THEN /\ reply' = RideText.pendingCleared
                           /\ getPendingRide(pending_uber_rides', req'.From, now')
                                = {nullObject}
                      ELSE pending_uber_rides' = pending_uber_rides
      /\ Continues("cancelUberRide") =>
           /\ agentCall'.requestId = Completed.requestId
           /\ pending_uber_rides' = pending_uber_rides
           /\ IF agentCall'.result = "throws"
              THEN active_uber_rides' = active_uber_rides
              ELSE getActiveRide(active_uber_rides', agentCall'.phone) = {nullId}
      /\ \A p \in Phones, r \in CancelResults :
           cancelEffect(active_uber_rides, p, r) =
             IF r.kind = "throws" THEN active_uber_rides
             ELSE {x \in active_uber_rides : x.phone # p}
    ]_vars

\* a phone with an active and a pending ride sent uber_cancel, the
\* cancellation threw, and both rides are still stored
C16_Witness ==
  /\ parsed.type = "uber_cancel"
  /\ reply = RideText.cancelAck
  /\ agentCall.op = "cancelUberRide"
  /\ agentCall.result = "throws"
  /\ agentCall.phone = req.From
  /\ getActiveRide(active_uber_rides, req.From) = {agentCall.requestId}
  /\ getPendingRide(pending_uber_rides, req.From, now) # {nullObject}
  /\ tasks = {}

-----------------------------------------------------------------------------
(* The ride commands with the scheduling of the detached continuations: a   *)
(* started async function runs on, each collaborator call returns or        *)
(* throws, and the agent loops are bounded                                   *)

\* some continuation in flight takes its step
Continue ==
  \/ QuoteContinuation
  \/ ConfirmContinuation
  \/ StatusContinuation
  \/ CancelContinuation
  \/ AuthContinuation

SpecRideFair == SpecRide /\ WF_vars(Continue)

\* the slow command of the given type is accepted from phone p
Accepted(type, p) ==
  CASE type = "uber_quote" -> TRUE
    [] type = "uber_confirm" ->
         getPendingRide(pending_uber_rides, p, now) # {nullObject}
    [] type \in {"uber_status", "uber_cancel"} ->
         getActiveRide(active_uber_rides, p) # {nullId}
    [] type = "uber_auth" ->
         getPendingAuth(pending_uber_auth, p, now) # {nullObject}
    [] OTHER -> FALSE

\* the acknowledgment of each slow command
AckOf ==
  [ uber_quote |-> QuoteAckText, uber_confirm |-> ConfirmAckText,
    uber_status |-> RideText.statusAck, uber_cancel |-> RideText.cancelAck,
    uber_auth |-> RideText.authAck ]

(* C17: the response to every accepted slow command carries the command's
   acknowledgment and sends nothing out of band, and starts one detached
   continuation for the sender; every continuation ends, and when it ends
   it has made exactly one out-of-band send, addressed to the sender,
   whether the collaborator returned or threw or a store write failed. *)
C17_SlowCommand ==
  /\ [][ /\ (ops' = ops + 1 /\ Accepted(parsed'.type, req'.From)) =>
              /\ reply' = AckOf[parsed'.type]
              /\ outbox' = outbox
              /\ \E t \in tasks' :
                   /\ tasks' = tasks \cup {t} /\ t \notin tasks
                   /\ t.id = ops /\ t.From = req'.From
         /\ (ops' = ops /\ tasks' # tasks) =>
              \E t \in tasks :
                /\ tasks' = tasks \ {t}
                /\ Len(outbox') = 1
                /\ outbox'[1].to = t.From ]_vars
  /\ <>[](tasks = {})

\* a quote was returned, saving it failed, and the one message the
\* continuation sent is the error
C17_Witness ==
  /\ agentCall.op = "getUberQuote"
  /\ agentCall.result = "quote"
  /\ RowsOf(pending_uber_rides, agentCall.phone) = {}
  /\ reply = QuoteAckText
  /\ Len(outbox) = 1
  /\ outbox[1].to = agentCall.phone
  /\ outbox[1].body = NotNullErrorText
  /\ ~outbox[1].sent
  /\ tasks = {}

(* C18: every out-of-band message a continuation sends goes to the From
   number of the inbound message that started it and has that message's To
   number as its sender, and the continuation a message starts carries that
   message's From and To; this holds while continuations of several phones
   are in flight. *)
C18_OutOfBandAddressing ==
  [][ /\ (ops' = ops /\ tasks' # tasks) =>
           \A i \in 1..Len(outbox') :
             /\ outbox'[i].to = Completed.From
             /\ outbox'[i].from = Completed.To
      /\ (ops' = ops + 1) =>
           \A t \in tasks' \ tasks : t.From = req'.From /\ t.To = req'.To
    ]_vars

\* a continuation of one phone has sent its message while a continuation
\* of the other phone, reached at the other number, is still in flight
C18_Witness ==
  /\ Len(outbox) = 1
  /\ outbox[1].to = agentCall.phone
  /\ \E t \in tasks :
       /\ t.From # outbox[1].to
       /\ t.To # outbox[1].from
       /\ t.id > 0

\* the fixed texts a failure is answered with
ApologyTexts ==
  { RequestErrorText, BusErrorText, RideText.quoteError, RideText.confirmError,
    RideText.statusError, RideText.cancelError, RideText.authError }

(* C19: when a collaborator call has thrown, the reply and every
   out-of-band message that answers it is one of the fixed apology texts,
   never the text of the thrown error. *)
C19_FailuresAsApologies ==
  [][ /\ (ops' = ops /\ tasks' # tasks /\ agentCall'.result = "throws") =>
           \A i \in 1..Len(outbox') : outbox'[i].body \in ApologyTexts
      /\ (ops' = ops + 1 /\ mtaCall'.called /\ mtaCall'.outcome = "throws") =>
           reply' \in ApologyTexts ]_vars

-----------------------------------------------------------------------------
(* The shared daily calorie counter, calorie-tracker.js *)

MaxCalorieCalls == 3
MaxDays == 1

\* the amounts callers pass, in tenths of a calorie
CalorieAmounts == {4, 15, 30}

\* Math.round of a value given in tenths
MathRound(tenths) == (tenths + 5) \div 10

\* the rows of daily_calories with the primary key date
DayRows(table, date) == {row \in table : row.date = date}

\* INSERT INTO daily_calories (date, total) VALUES (date, total)
InsertDay(table, date, total) == table \cup {[date |-> date, total |-> total]}

\* SELECT total FROM daily_calories WHERE date = $1, then rows[0]?.total || 0
getTodayTotal(table, date) ==
  LET rows == DayRows(table, date)
  IN  IF rows = {} THEN 0
      ELSE LET total == (CHOOSE row \in rows : TRUE).total
           IN  IF total = 0 THEN 0 ELSE total

\* the statement of addCalories
addCalories(table, date, amount) ==
  IF DayRows(table, date) = {}
  THEN InsertDay(table, date, amount)
  ELSE {IF row.date = date THEN [row EXCEPT !.total = row.total + amount] ELSE row :
          row \in table}

Greatest(a, b) == IF a >= b THEN a ELSE b

\* variant: DO UPDATE SET total = daily_calories.total - $2
subtractUnclamped(table, date, amount) ==
  IF DayRows(table, date) = {}
  THEN InsertDay(table, date, 0)
  ELSE {IF row.date = date THEN [row EXCEPT !.total = row.total - amount]
        ELSE row : row \in table}

\* the statement of subtractCalories
subtractCalories(table, date, amount) ==
  IF DayRows(table, date) = {}
  THEN InsertDay(table, date, 0)
  ELSE {IF row.date = date THEN [row EXCEPT !.total = Greatest(0, row.total - amount)]
        ELSE row : row \in table}

\* variant: ON CONFLICT (date) DO NOTHING
resetKeepsRow(table, date) ==
  IF DayRows(table, date) = {} THEN InsertDay(table, date, 0) ELSE table

\* the second statement of resetToday
resetToday(table, date) ==
  IF DayRows(table, date) = {}
  THEN InsertDay(table, date, 0)
  ELSE {IF row.date = date THEN [row EXCEPT !.total = 0] ELSE row : row \in table}

\* RETURNING total
Returning(table, date) == (CHOOSE row \in DayRows(table, date) : TRUE).total

CalorieReturn(op, id, date, amount, returned, clean) ==
  [op |-> op, id |-> id, date |-> date, amount |-> amount, returned |-> returned,
   clean |-> clean,
   after |-> IF calorieCall.op = "none" THEN NoCall
             ELSE [op |-> calorieCall.op, date |-> calorieCall.date,
                   returned |-> calorieCall.returned]]

\* a write reaches the table while the resets in r are between their queries
Overtaken(r) == {[x EXCEPT !.clean = FALSE] : x \in r}

rideVars == <<parseVars, now, storeVars, storeCall, lastPut, webVars>>

\* getTodayKey() moves to the next day
Midnight ==
  /\ today < MaxDays
  /\ today' = today + 1
  /\ UNCHANGED <<formatVars, rideVars, ops, daily_calories, resets, calorieCall>>

AddCalories ==
  /\ ops < MaxCalorieCalls
  /\ \E calories \in CalorieAmounts :
       LET amount == MathRound(calories)
       IN  /\ daily_calories' = addCalories(daily_calories, today, amount)
           /\ calorieCall' = CalorieReturn("addCalories", ops, today, amount,
                                           Returning(daily_calories', today), TRUE)
  /\ resets' = Overtaken(resets)
  /\ ops' = ops + 1
  /\ UNCHANGED <<formatVars, rideVars, today>>

SubtractCalories ==
  /\ ops < MaxCalorieCalls
  /\ \E calories \in CalorieAmounts :
       LET amount == MathRound(calories)
       IN  /\ daily_calories' = subtractCalories(daily_calories, today, amount)
           /\ calorieCall' = CalorieReturn("subtractCalories", ops, today, amount,
                                           Returning(daily_calories', today), TRUE)
  /\ resets' = Overtaken(resets)
  /\ ops' = ops + 1
  /\ UNCHANGED <<formatVars, rideVars, today>>

GetTodayTotal ==
  /\ ops < MaxCalorieCalls
  /\ calorieCall' = CalorieReturn("getTodayTotal", ops, today, 0,
                                  getTodayTotal(daily_calories, today), TRUE)
  /\ ops' = ops + 1
  /\ UNCHANGED <<formatVars, rideVars, today, daily_calories, resets>>

\* resetToday up to the return of its getTodayTotal()
ResetRead ==
  /\ ops < MaxCalorieCalls
  /\ resets' = resets \cup {[id |-> ops, today |-> today, clean |-> TRUE,
                             previous |-> getTodayTotal(daily_calories, today)]}
  /\ ops' = ops + 1
  /\ UNCHANGED <<formatVars, rideVars, today, daily_calories, calorieCall>>

\* resetToday from there: the upsert, then return previous
ResetWrite ==
  \E r \in resets :
    /\ daily_calories' = resetToday(daily_calories, r.today)
    /\ calorieCall' = CalorieReturn("resetToday", r.id, r.today, 0, r.previous, r.clean)
    /\ resets' = Overtaken(resets \ {r})
    /\ UNCHANGED <<formatVars, rideVars, today, ops>>

NextCalorie ==
  \/ Midnight
  \/ AddCalories
  \/ SubtractCalories
  \/ GetTodayTotal
  \/ ResetRead
  \/ ResetWrite

InitCalorie == InitParser /\ InitStores /\ InitWeb /\ InitCalories /\ InitNoFormat

SpecCalorie == InitCalorie /\ [][NextCalorie]_vars

\* the total of a day as the table holds it, 0 for a day without an entry
DayTotal(table, date) ==
  IF \E row \in table : row.date = date
  THEN (CHOOSE row \in table : row.date = date).total
  ELSE 0

\* the step on which a resetToday that no write has overtaken returns
ResetReturns ==
  /\ calorieCall' # calorieCall
  /\ calorieCall'.op = "resetToday"
  /\ calorieCall'.clean

(* C20: a resetToday that no other write overtakes returns the total the
   day had before it (0 for a day without an entry) and leaves the total
   at 0; a getTodayTotal that is the next call of that day returns 0; a
   second reset with no call in between returns 0 and leaves the total
   at 0. *)
C20_Reset ==
  [][ /\ ResetReturns =>
           /\ calorieCall'.returned = DayTotal(daily_calories, calorieCall'.date)
           /\ DayRows(daily_calories, calorieCall'.date) = {} => calorieCall'.returned = 0
           /\ DayTotal(daily_calories', calorieCall'.date) = 0
      /\ ( /\ calorieCall' # calorieCall
           /\ calorieCall'.op = "getTodayTotal"
           /\ calorieCall'.after.op = "resetToday"
           /\ calorieCall'.after.date = calorieCall'.date ) =>
           calorieCall'.returned = 0
      /\ ( /\ ResetReturns
           /\ calorieCall'.after.op = "resetToday"
           /\ calorieCall'.after.date = calorieCall'.date ) =>
           /\ calorieCall'.returned = 0
           /\ DayTotal(daily_calories', calorieCall'.date) = 0 ]_vars

\* a second reset has returned 0 after a first one returned a positive total
C20_Witness ==
  /\ calorieCall.op = "resetToday"
  /\ calorieCall.clean
  /\ calorieCall.returned = 0
  /\ calorieCall.after.op = "resetToday"
  /\ calorieCall.after.date = calorieCall.date
  /\ calorieCall.after.returned > 0
  /\ DayTotal(daily_calories, calorieCall.date) = 0

\* the step on which a call of the tracker returns
Returns(op) == calorieCall' # calorieCall /\ calorieCall'.op = op

(* C21: after any sequence of addCalories with non-negative amounts,
   subtractCalories and resetToday no day's total is negative;
   subtractCalories returns the larger of 0 and the day's total less the
   rounded amount, and on a day without an entry it creates the entry and
   returns 0. *)
C21_SubtractFloor ==
  /\ [](\A row \in daily_calories : row.total >= 0)
  /\ [][ Returns("subtractCalories") =>
           LET total == DayTotal(daily_calories, calorieCall'.date)
               n == calorieCall'.amount
           IN  /\ calorieCall'.returned = IF total > n THEN total - n ELSE 0
               /\ DayTotal(daily_calories', calorieCall'.date) = calorieCall'.returned
               /\ DayRows(daily_calories, calorieCall'.date) = {} =>
                    /\ calorieCall'.returned = 0
                    /\ DayRows(daily_calories', calorieCall'.date) # {} ]_vars

\* a subtraction larger than the day's positive total has returned 0
C21_Witness ==
  /\ calorieCall.op = "subtractCalories"
  /\ calorieCall.returned = 0
  /\ calorieCall.after.op = "addCalories"
  /\ calorieCall.after.date = calorieCall.date
  /\ calorieCall.after.returned > 0
  /\ calorieCall.amount > calorieCall.after.returned

-----------------------------------------------------------------------------
(* Claims about expiry and isolation of the ride stores *)

\* the latest write of the pendingRide slot of phone p
PendingWrite(p) == lastPut["pendingRide"][p]

\* the age, in milliseconds, of that write at time t
Age(w, t) == t - w.at

(* C22: while the latest write of a phone's pending ride is a save,
   getPendingRide returns that quote while its age is under 10 minutes and
   null from 10 minutes on, with the row still stored; an uber_confirm handled
   10 minutes or more after the save is answered with the no-pending-ride
   text, starts no continuation, calls no agent and saves no active ride. *)
C22_PendingRideTtl ==
  /\ [](\A p \in Phones :
          Saved(PendingWrite(p)) =>
            /\ \E row \in pending_uber_rides : row.phone = p
            /\ \A v \in getPendingRide(pending_uber_rides, p, now) :
                 IF Age(PendingWrite(p), now) < 10 * 60 * 1000
                 THEN SameRide(v, PendingWrite(p).value)
                 ELSE v = nullObject)
  /\ [][ ( /\ Handles("uber_confirm")
           /\ Saved(PendingWrite(req'.From))
           /\ Age(PendingWrite(req'.From), now) >= 10 * 60 * 1000 ) =>
           /\ reply' = NoPendingRideText
           /\ tasks' = tasks
           /\ agentCall' = agentCall
           /\ active_uber_rides' = active_uber_rides ]_vars

\* an uber_confirm has been refused for a quote saved ten minutes earlier
\* whose row is still stored
C22_Witness ==
  /\ parsed.type = "uber_confirm"
  /\ reply = NoPendingRideText
  /\ storeCall.op = "getPendingRide"
  /\ storeCall.result = nullObject
  /\ Saved(PendingWrite(req.From))
  /\ Age(PendingWrite(req.From), storeCall.at) = 10 * 60 * 1000
  /\ \E row \in pending_uber_rides : row.phone = req.From

\* the active ride of phone p is no longer what it was
ActiveChanges(p) ==
  /\ getActiveRide(active_uber_rides, p) # {nullId}
  /\ getActiveRide(active_uber_rides', p) # getActiveRide(active_uber_rides, p)

(* C23: a stored active ride is returned by getActiveRide whatever its age;
   it stops being returned only on a step that clears it, which is the
   continuation of an uber_status whose status is terminal or of an
   uber_cancel whose cancellation returned, or that replaces it by the
   request id of a new booking. *)
C23_ActiveRideNoTtl ==
  /\ [](\A row \in active_uber_rides :
          getActiveRide(active_uber_rides, row.phone) = {row.request_id})
  /\ [][ \A p \in Phones :
           ActiveChanges(p) =>
             \/ /\ Continues("getUberStatus")
                /\ agentCall'.phone = p
                /\ agentCall'.status \in {"completed", "rider_canceled", "driver_canceled"}
                /\ getActiveRide(active_uber_rides', p) = {nullId}
             \/ /\ Continues("cancelUberRide")
                /\ agentCall'.phone = p
                /\ agentCall'.result # "throws"
                /\ getActiveRide(active_uber_rides', p) = {nullId}
             \/ /\ Continues("confirmUberRide")
                /\ agentCall'.phone = p
                /\ agentCall'.result = "booked"
                /\ getActiveRide(active_uber_rides', p) = {agentCall'.ride.requestId} ]_vars
  /\ \A p \in Phones :
       LET table == {[phone |-> p, request_id |-> "req-0", created_at |-> 0]}
       IN  /\ \A r \in StatusResults :
                statusEffect(table, p, r) # table =>
                  /\ r.kind = "status"
                  /\ r.status \in {"completed", "rider_canceled", "driver_canceled"}
           /\ \A r \in CancelResults :
                cancelEffect(table, p, r) # table => r.kind = "done"

\* an uber_status has found an active ride saved thirty minutes earlier
C23_Witness ==
  /\ parsed.type = "uber_status"
  /\ storeCall.op = "getActiveRide"
  /\ storeCall.at = now
  /\ \E row \in active_uber_rides :
       /\ row.phone = req.From
       /\ storeCall.result = row.request_id
       /\ now - row.created_at >= 30 * 60 * 1000

-----------------------------------------------------------------------------
(* Formatting of bus arrivals, MTABusAPI.formatAsText of mta-api.js.  A     *)
(* message is the sequence of the pieces the template literals append.      *)

MaxArrivals == 4
DefaultMaxResults == 3

\* the entries parseResponse builds; the route and destination are fixed
ArrivalValues ==
  { [route |-> "B63", destination |-> "BAY RIDGE", stopsAway |-> n, hasRealtimeData |-> rt] :
      n \in {0, 1, 2}, rt \in BOOLEAN }

ArrivalLists == UNION {[1..n -> ArrivalValues] : n \in 0..MaxArrivals}

\* parseResponse: not found with no arrivals, or found with the visits mapped
ParsedDataValues ==
  {[found |-> FALSE, arrivals |-> <<>>]}
  \cup {[found |-> TRUE, stopName |-> "5 AV/UNION ST", arrivals |-> a] : a \in ArrivalLists}

NoBusesMessage ==
  << [piece |-> "text",
      text |-> "No buses found arriving at this stop right now. Please check your stop code and try again, or visit bustime.mta.info for more info."] >>

MathMin(a, b) == IF a <= b THEN a ELSE b

\* variant: every arrival is kept
sliceKeepsAll(s, end) == s

\* Array.prototype.slice(0, end)
slice(s, end) == SubSeq(s, 1, MathMin(end, Len(s)))

\* arriving now / <n> stop(s) away
stopsText(stopsAway) ==
  IF stopsAway = 0 THEN [text |-> "arriving now"]
  ELSE [count |-> stopsAway, word |-> IF stopsAway > 1 THEN "stops" ELSE "stop",
        text |-> " away"]

\* what one iteration of the forEach appends
arrivalPieces(arrival, index, maxResults, length) ==
  << [piece |-> "route", route |-> arrival.route, destination |-> arrival.destination,
      stops |-> stopsText(arrival.stopsAway)] >>
  \o (IF ~arrival.hasRealtimeData
      THEN << [piece |-> "text", text |-> " (scheduled time)"] >> ELSE <<>>)
  \o (IF index < MathMin(maxResults, length) - 1
      THEN << [piece |-> "text", text |-> "\n\n"] >> ELSE <<>>)

formatAsText(data, maxResults) ==
  IF ~data.found \/ Len(data.arrivals) = 0
  THEN NoBusesMessage
  ELSE LET shown == slice(data.arrivals, maxResults)
           totalBuses == Len(data.arrivals)
           body[k \in 0..Len(shown)] ==
             IF k = 0
             THEN << [piece |-> "header", stopName |-> data.stopName] >>
             ELSE body[k - 1] \o arrivalPieces(shown[k], k - 1, maxResults, totalBuses)
       IN  body[Len(shown)]
           \o (IF totalBuses > maxResults
               THEN << [piece |-> "footer", shown |-> maxResults, total |-> totalBuses] >>
               ELSE <<>>)

InitFormat ==
  /\ InitParser /\ InitStores /\ InitWeb
  /\ InitCalories
  /\ parsedData \in ParsedDataValues
  /\ responseText = <<>>
  /\ calorieData = NoCall
  /\ agentRun = NoCall

\* responseText = mtaAPI.formatAsText(arrivalData)
RunFormat ==
  /\ responseText = <<>>
  /\ responseText' = formatAsText(parsedData, DefaultMaxResults)
  /\ UNCHANGED <<rideVars, ops, calorieVars, parsedData, calorieData, agentRun>>

NextFormat == RunFormat

SpecFormat == InitFormat /\ [][NextFormat]_vars

\* the pieces of a message that are arrival lines
Routes(m) == SelectSeq(m, LAMBDA x : x.piece = "route")
Footers(m) == SelectSeq(m, LAMBDA x : x.piece = "footer")

(* C24: formatAsText lists the first min(3, n) of the n arrivals in the order
   received, ends with the note 'Showing 3 of n buses' exactly when n > 3,
   and returns the no-buses text when the data is not found or has no
   arrivals. *)
C24_FormatCapped ==
  responseText # <<>> =>
    LET n == Len(parsedData.arrivals)
        shown == IF n < 3 THEN n ELSE 3
    IN  IF ~parsedData.found \/ n = 0
        THEN responseText = NoBusesMessage
        ELSE /\ Len(Routes(responseText)) = shown
             /\ \A i \in 1..shown :
                  /\ Routes(responseText)[i].route = parsedData.arrivals[i].route
                  /\ Routes(responseText)[i].destination = parsedData.arrivals[i].destination
                  /\ Routes(responseText)[i].stops = stopsText(parsedData.arrivals[i].stopsAway)
             /\ Len(Footers(responseText)) = IF n > 3 THEN 1 ELSE 0
             /\ n > 3 =>
                  /\ responseText[Len(responseText)].piece = "footer"
                  /\ responseText[Len(responseText)].shown = 3
                  /\ responseText[Len(responseText)].total = n

\* four arrivals that differ have been formatted: three lines and the note
C24_Witness ==
  /\ Len(parsedData.arrivals) = 4
  /\ parsedData.arrivals[1] # parsedData.arrivals[2]
  /\ parsedData.arrivals[3] # parsedData.arrivals[4]
  /\ Len(Routes(responseText)) = 3
  /\ Len(Footers(responseText)) = 1

-----------------------------------------------------------------------------
(* Claims about the stop-code pattern, checked under SpecParse *)

UberTypes == {"uber_quote", "uber_confirm", "uber_status", "uber_cancel", "uber_auth"}

BeginsWithUber(t) == Len(t) >= 5 /\ SubSeq(t, 1, 5) = Chars("uber ")

(* C25: a message without an image that begins with 'uber ' and holds six
   consecutive digits is never parsed as stop_query; when it has one of the
   Uber forms it is parsed as that Uber command. *)
C25_UberBeforeStopCode ==
  (UnifiedRun /\ ~WithImage /\ BeginsWithUber(Lowered) /\ HasSixDigitRun(Trimmed)) =>
    /\ command.type # "stop_query"
    /\ UberFormsAsClaimed

\* the index at which the first run of at least six digits of t starts
FirstRun(t) ==
  CHOOSE i \in 1..(Len(t) - 5) :
    /\ \A j \in i..(i + 5) : t[j] \in DigitSet
    /\ \A k \in 1..(i - 1) : \E j \in k..(k + 5) : t[j] \notin DigitSet

\* t is taken by help, reset, total, sub, refresh or the 'c ' rule
MatchesEarlierRule(t) ==
  \/ IsExactText(t)
  \/ t \in {Chars("r"), Chars("refresh")}
  \/ (Len(t) >= 2 /\ SubSeq(t, 1, 2) = Chars("c "))

(* C26: a message without an image that none of the rules help, reset,
   total, sub, refresh and 'c ' takes and that holds a run of at least six
   digits anywhere is parsed as stop_query whose stopCode is the first six
   digits of the first such run, and so never as food_query. *)
C26_StopCodeAmbiguity ==
  (UnifiedRun /\ ~WithImage /\ ~MatchesEarlierRule(Lowered) /\ HasSixDigitRun(Trimmed)) =>
    /\ command.type = "stop_query"
    /\ command.stopCode = SubSeq(Trimmed, FirstRun(Trimmed), FirstRun(Trimmed) + 5)

\* a food description with a seven-digit number has become a stop_query
C26_Witness ==
  /\ parserUsed = "gemini"
  /\ ~WithImage
  /\ Trimmed = Chars("pizza 1234567 cal")
  /\ command.type = "stop_query"
  /\ command.stopCode = Chars("123456")

-----------------------------------------------------------------------------
(* Claims about the answers of the router *)

HasActiveRide(p) == \E r \in active_uber_rides : r.phone = p
HasUnexpiredAuth(p) ==
  \E r \in pending_uber_auth : r.phone = p /\ now - r.created_at < PendingIntervalMs

\* the step answers in the response only
AnswersOnly ==
  /\ agentCall' = agentCall
  /\ outbox' = outbox
  /\ tasks' = tasks
  /\ storeVars' = storeVars
  /\ lastPut' = lastPut

(* C27: an uber_status from a phone with neither an active nor a pending
   ride, an uber_cancel from such a phone and an uber_auth from a phone
   without a pending challenge are each answered in the response with their
   own instructive text, with no agent call, no continuation, no out-of-band
   message and every session store as it was; an uber_status from a phone
   with only a pending ride is answered with the pending quote and leaves it
   stored. *)
C27_StateViolations ==
  [][ /\ ( /\ Handles("uber_status")
           /\ ~HasActiveRide(req'.From)
           /\ ~HasUnexpiredPendingRide(req'.From) ) =>
           reply' = RideText.noActiveRide /\ AnswersOnly
      /\ ( /\ Handles("uber_cancel")
           /\ ~HasActiveRide(req'.From)
           /\ ~HasUnexpiredPendingRide(req'.From) ) =>
           reply' = RideText.nothingToCancel /\ AnswersOnly
      /\ ( /\ Handles("uber_auth")
           /\ ~HasUnexpiredAuth(req'.From) ) =>
           reply' = RideText.noPendingAuth /\ AnswersOnly
      /\ ( /\ Handles("uber_status")
           /\ ~HasActiveRide(req'.From)
           /\ HasUnexpiredPendingRide(req'.From) ) =>
           /\ reply' = RideText.pendingStatus
           /\ AnswersOnly
           /\ pending_uber_rides' = pending_uber_rides ]_vars

\* an uber_cancel from a phone with no ride at all has been answered
C27_Witness ==
  /\ parsed.type = "uber_cancel"
  /\ reply = RideText.nothingToCancel
  /\ ~HasActiveRide(req.From)
  /\ ~HasUnexpiredPendingRide(req.From)
  /\ tasks = {}
  /\ agentCall = NoCall

\* ---------------------------------------------------------------------
\* Claims about the response of the webhook
\* ---------------------------------------------------------------------

(* C28: every inbound POST to /sms is answered exactly once, with status 200
   and a reply of exactly one message, on every path, the one of a thrown
   error included, where the one message is an apology; and while messages
   arrive the handler accepts the next one whatever happened to the ones
   before it. *)
C28_AnsweredOnce ==
  /\ [][ ops' = ops + 1 =>
           /\ Len(res') = 1
           /\ res'[1].status = 200
           /\ Len(res'[1].twiml) = 1
           /\ res'[1].twiml[1] = reply'
           /\ reply' # "none"
           /\ (mtaCall'.called /\ mtaCall'.outcome = "throws") =>
                reply' \in ApologyTexts ]_vars
  /\ [](ops < MaxMessages => ENABLED Sms)

\* the transit lookup of a message threw, the message was answered once with
\* the apology, and the handler accepts the next message
C28_Witness ==
  /\ mtaCall.called /\ mtaCall.outcome = "throws"
  /\ res = << send(<<RequestErrorText>>) >>
  /\ ENABLED Sms

\* ---------------------------------------------------------------------
\* Claims about cleanupExpiredRides, checked under SpecStore
\* ---------------------------------------------------------------------

\* the tables as the saves and clears alone leave them: the row of the
\* latest write of each phone, had no cleanup ever run
PendingWritten(p) ==
  IF Saved(PendingWrite(p))
  THEN {pendingRow(p, PendingWrite(p).value, PendingWrite(p).at)}
  ELSE {}
ActiveWrite(p) == lastPut["activeRide"][p]
ActiveWritten(p) ==
  IF Saved(ActiveWrite(p))
  THEN {[phone |-> p, request_id |-> ActiveWrite(p).value,
         created_at |-> ActiveWrite(p).at]}
  ELSE {}

\* the step is a run of cleanupExpiredRides
Cleans == ops' = ops + 1 /\ storeCall'.op = "cleanupExpiredRides"

(* C29: cleanupExpiredRides deletes only pending rides for which
   getPendingRide already returns null and leaves the active rides alone;
   for every phone and at every time getPendingRide and getActiveRide return
   what they would return from the saves and clears alone, whether or not a
   cleanup has run before. *)
C29_CleanupIsHygiene ==
  /\ [][ Cleans =>
           /\ active_uber_rides' = active_uber_rides
           /\ pending_uber_rides' \subseteq pending_uber_rides
           /\ \A r \in pending_uber_rides \ pending_uber_rides' :
                getPendingRide(pending_uber_rides, r.phone, now) = {nullObject}
           /\ \A p \in Phones :
                getPendingRide(pending_uber_rides', p, now) =
                  getPendingRide(pending_uber_rides, p, now) ]_vars
  /\ [](\A p \in Phones :
          /\ getPendingRide(pending_uber_rides, p, now) =
               getPendingRide(PendingWritten(p), p, now)
          /\ getActiveRide(active_uber_rides, p) =
               getActiveRide(ActiveWritten(p), p))

\* a cleanup has removed the expired row of a phone's saved ride
C29_Witness ==
  /\ storeCall.op = "cleanupExpiredRides"
  /\ \E p \in Phones :
       /\ Saved(PendingWrite(p))
       /\ Age(PendingWrite(p), now) > PendingIntervalMs
       /\ ~\E r \in pending_uber_rides : r.phone = p

-----------------------------------------------------------------------------
(* Both webhooks, each with its own stores: the session server keeps the   *)
(* last bus query in SessionManager, the unified router keeps the rides in *)
(* uber-pending.js                                                          *)

\* the session server after it served the stop query of the first phone
StoredQuery == [stopCode |-> Chars("308209"), route |-> null]
InitBusStored ==
  /\ input = DefaultInput
  /\ command = BusParsed
  /\ parserUsed = "none"
  /\ now = 0
  /\ sessions = saveQuery({}, FirstPhone, StoredQuery.stopCode, StoredQuery.route, 0)
  /\ pending_uber_rides = {}
  /\ active_uber_rides = {}
  /\ pending_uber_auth = {}
  /\ storeCall = NoCall
  /\ ops = 0
  /\ lastPut = [s \in Slots |-> [p \in Phones |->
                  IF s = "lastBusQuery" /\ p = FirstPhone
                  THEN [isNull |-> FALSE, kind |-> "save", value |-> StoredQuery,
                        at |-> 0, prev |-> NoPut]
                  ELSE NoPut]]
  /\ tasks = {}
  /\ req = NoReq
  /\ parsed = NotParsed
  /\ reply = "none"
  /\ res = <<>>
  /\ mtaCall = NoLookup
  /\ agentCall = NoCall
  /\ outbox = NoSms
  /\ lastStop = [p \in Phones |->
                   IF p = FirstPhone
                   THEN StopSeen(StoredQuery.stopCode, StoredQuery.route, "data")
                   ELSE NoPut]
  /\ InitCalories
  /\ InitNoFormat

BusServer == command = BusParsed /\ NextBus
RideServer == command = RideParsed /\ NextRide

NextPhones == BusServer \/ RideServer

SpecPhones == (InitBus \/ InitBusStored \/ InitRide) /\ [][NextPhones]_vars

\* the phone whose message or detached continuation the step runs
Served == IF ops' = ops + 1 THEN req'.From ELSE Completed.From

\* everything the session stores hold for one phone
SlotsOf(p) ==
  << {e \in sessions : e.key = p},
     {r \in pending_uber_rides : r.phone = p},
     {r \in active_uber_rides : r.phone = p},
     {r \in pending_uber_auth : r.phone = p} >>

(* C30: a step that handles a message of one phone, or runs the detached
   continuation of one, lazy expiry included, leaves what the session stores
   hold for every other phone exactly as it was, however the messages of the
   phones interleave. *)
C30_PhoneIsolation ==
  [][ (ops' = ops + 1 \/ tasks' # tasks) =>
        \A b \in Phones \ {Served} : SlotsOf(b)' = SlotsOf(b) ]_vars

\* a refresh of the second phone has deleted its own expired session while
\* the session of the first phone, as old, is still stored
C30_Witness ==
  /\ storeCall.op = "getLastQuery"
  /\ Saved(lastPut["lastBusQuery"][storeCall.phone])
  /\ ~mapHas(sessions, storeCall.phone)
  /\ \E e \in sessions : e.key # storeCall.phone

-----------------------------------------------------------------------------
(* Claims about the quote on its way from getUberQuote to confirmUberRide *)

(* C31: within the TTL getPendingRide returns the quote savePendingRide
   stored, with its pickup, its destination and its product candidates, and
   the value the continuation of uber_confirm passes to confirmUberRide holds
   the selected product with its quoted price, so that the call gets as far
   as the booking agent. *)
C31_PendingRideRoundTrip ==
  /\ [](\A p \in Phones :
          (Saved(PendingWrite(p)) /\ Age(PendingWrite(p), now) < PendingIntervalMs) =>
            \A v \in getPendingRide(pending_uber_rides, p, now) :
              /\ SameRide(v, PendingWrite(p).value)
              /\ v.products = PendingWrite(p).value.products)
  /\ [][ Continues("confirmUberRide") =>
           /\ hasProduct(agentCall'.pendingRide)
           /\ agentCall'.ride.kind = "throws" =>
                agentCall'.ride.message # "Invalid product selection" ]_vars

-----------------------------------------------------------------------------
(* The calorie estimate of a food_query: GeminiCalorieAPI and the case      *)
(* 'food_query' of the unified router                                       *)

MaxFoodMessages == 2

\* The text of an AI response, as the pieces the cleaning pattern and
\* JSON.parse tell apart: the fences, a line break, one complete JSON text
\* with its value, and prose.
FenceJson == [piece |-> "fence json"]
Fence == [piece |-> "fence"]
LineBreak == [piece |-> "\n"]
Prose == [piece |-> "prose"]
JsonText(value) == [piece |-> "json", value |-> value]

\* the values of the JSON texts: an estimate with totalCalories in tenths, an
\* estimate without totalCalories, and null
OneItem(calories) == << [name |-> "item", calories |-> calories, portion |-> "1"] >>
JsonValues ==
  { [items |-> OneItem(c), totalCalories |-> c, confidence |-> "high", notes |-> null] :
      c \in {0, 4, 15, 30} }
  \cup { [items |-> <<>>, confidence |-> "low", notes |-> null], nullObject }

\* result.response.text()
AiResponses ==
  { <<JsonText(v)>> : v \in JsonValues }
  \cup { <<FenceJson, LineBreak, JsonText(v), LineBreak, Fence>> : v \in JsonValues }
  \cup { <<Prose, JsonText(v)>> : v \in JsonValues }
  \cup { <<Prose>>, <<>>, <<FenceJson, LineBreak, Fence>> }

\* responseText.replace(...): an opening fence with the line break after
\* it, and a closing fence with the line break before it, are removed
RECURSIVE replaceFences(_)
replaceFences(text) ==
  IF text = <<>> THEN <<>>
  ELSE IF text[1] = FenceJson
  THEN IF Len(text) >= 2 /\ text[2] = LineBreak
       THEN replaceFences(Tail(Tail(text)))
       ELSE replaceFences(Tail(text))
  ELSE IF text[1] = LineBreak /\ Len(text) >= 2 /\ text[2] = Fence
  THEN replaceFences(Tail(Tail(text)))
  ELSE IF text[1] = Fence
  THEN replaceFences(Tail(text))
  ELSE <<text[1]>> \o replaceFences(Tail(text))

\* String.prototype.trim on the pieces
RECURSIVE trimPieces(_)
trimPieces(text) ==
  IF text = <<>> THEN <<>>
  ELSE IF text[1] = LineBreak THEN trimPieces(Tail(text))
  ELSE IF text[Len(text)] = LineBreak THEN trimPieces(SubSeq(text, 1, Len(text) - 1))
  ELSE text

\* JSON.parse throws a SyntaxError unless the text is one JSON text
JSONParseThrows(cleaned) == ~(Len(cleaned) = 1 /\ cleaned[1].piece = "json")
JSONParse(cleaned) == cleaned[1].value

CalorieThrown(message) == [thrown |-> TRUE, message |-> message]

\* variant: the catch block of parseResponse throws the error on
parseResponseRethrows(text, originalInput) ==
  CalorieThrown("Could not parse calorie estimate")

\* the catch block of parseResponse
parseResponseFailed(text, originalInput) ==
  [ thrown |-> FALSE, success |-> FALSE, error |-> "Could not parse calorie estimate",
    rawResponse |-> text, originalInput |-> originalInput ]

\* GeminiCalorieAPI.parseResponse(responseText, originalInput); reading
\* parsed.items of null throws inside the try block as well
calorieParseResponse(text, originalInput) ==
  LET cleaned == trimPieces(replaceFences(text))
  IN  IF JSONParseThrows(cleaned) THEN parseResponseFailed(text, originalInput)
      ELSE LET json == JSONParse(cleaned)
           IN  IF json = nullObject THEN parseResponseFailed(text, originalInput)
               ELSE IF "totalCalories" \in DOMAIN json
               THEN [ thrown |-> FALSE, success |-> TRUE, items |-> json.items,
                      totalCalories |-> json.totalCalories,
                      confidence |-> json.confidence, notes |-> json.notes,
                      originalInput |-> originalInput ]
               ELSE [ thrown |-> FALSE, success |-> TRUE, items |-> json.items,
                      confidence |-> json.confidence, notes |-> json.notes,
                      originalInput |-> originalInput ]

\* model.generateContent returns a response or throws
GenerateOutcomes == {[throws |-> TRUE]} \cup {[throws |-> FALSE, text |-> t] : t \in AiResponses}

\* GeminiCalorieAPI.estimateCalories(foodDescription)
estimateCalories(foodDescription, generated) ==
  IF generated.throws THEN CalorieThrown("Unable to estimate calories")
  ELSE calorieParseResponse(generated.text, foodDescription)

\* the texts of formatAsText and of the case 'food_query'
CalorieText ==
  [ couldNotEstimate |->
      "Sorry, I couldn't estimate calories for \"<originalInput>\". Try being more specific (e.g., \"2 scrambled eggs\" instead of \"eggs\").",
    estimate |-> "<items>",
    uncertain |-> "\n\n(Estimate uncertain - try being more specific)",
    dailyTotal |-> "\n\nDaily total: <dailyTotal> / <target> cal" ]

\* GeminiCalorieAPI.formatAsText(result)
calorieFormatAsText(result) ==
  IF ~result.success THEN CalorieText.couldNotEstimate
  ELSE IF result.confidence = "low" THEN CalorieText.estimate \o CalorieText.uncertain
  ELSE CalorieText.estimate

\* calorieData.success && calorieData.totalCalories
addsToTotal(result) ==
  /\ result.success
  /\ "totalCalories" \in DOMAIN result
  /\ result.totalCalories # 0

FoodBodies == { Chars("eggs"), Chars("2 eggs") }

\* case 'food_query' and the catch block of the handler
FoodQuery ==
  /\ ops < MaxFoodMessages
  /\ \E from \in Phones, body \in FoodBodies, generated \in GenerateOutcomes :
       LET estimate == estimateCalories(body, generated)
       IN  /\ req' = RouterRequest(from, TwilioNumber, body)
           /\ parsed' = [type |-> "food_query", foodDescription |-> body]
           /\ calorieData' = estimate
           /\ IF estimate.thrown
              THEN /\ reply' = RequestErrorText
                   /\ UNCHANGED <<daily_calories, calorieCall, resets>>
              ELSE IF addsToTotal(estimate)
              THEN LET amount == MathRound(estimate.totalCalories)
                   IN  /\ daily_calories' = addCalories(daily_calories, today, amount)
                       /\ calorieCall' =
                            CalorieReturn("addCalories", ops, today, amount,
                                          Returning(daily_calories', today), TRUE)
                       /\ resets' = Overtaken(resets)
                       /\ reply' = calorieFormatAsText(estimate) \o CalorieText.dailyTotal
              ELSE /\ reply' = calorieFormatAsText(estimate)
                   /\ UNCHANGED <<daily_calories, calorieCall, resets>>
  /\ res' = respond(reply', FALSE)
  /\ ops' = ops + 1
  /\ UNCHANGED <<parsedData, responseText, agentRun, parseVars, now, storeVars,
                 storeCall, lastPut, tasks, mtaCall, agentCall, outbox, lastStop, today>>

NextFood == Midnight \/ FoodQuery \/ GetTodayTotal

SpecFood == InitCalorie /\ [][NextFood]_vars

(* C32: when the AI response to a food_query is not valid JSON, the estimate
   has success false, the reply is the could-not-estimate text and not the
   generic apology, and the daily total is unchanged; a step of a food_query
   raises the daily total only when the estimate succeeded with a
   totalCalories that is not zero. *)
C32_UnparseableDegrades ==
  [][ /\ (ops' = ops + 1 /\ parsed'.type = "food_query" /\ ~calorieData'.thrown
            /\ ~calorieData'.success) =>
           /\ reply' = CalorieText.couldNotEstimate
           /\ reply' # RequestErrorText
           /\ daily_calories' = daily_calories
      /\ (ops' = ops + 1 /\ parsed'.type = "food_query"
            /\ getTodayTotal(daily_calories', today) >
                 getTodayTotal(daily_calories, today)) =>
           /\ ~calorieData'.thrown
           /\ calorieData'.success
           /\ "totalCalories" \in DOMAIN calorieData'
           /\ calorieData'.totalCalories # 0
      /\ \A generated \in GenerateOutcomes :
           (~generated.throws
              /\ JSONParseThrows(trimPieces(replaceFences(generated.text)))) =>
             LET estimate == estimateCalories(Chars("eggs"), generated)
             IN  ~estimate.thrown /\ ~estimate.success ]_vars

\* after a first food_query was added to the total, a food_query whose
\* response was prose has been answered with the could-not-estimate text
C32_Witness ==
  /\ parsed.type = "food_query"
  /\ getTodayTotal(daily_calories, today) > 0
  /\ ~calorieData.thrown /\ ~calorieData.success
  /\ calorieData.rawResponse = <<Prose>>
  /\ reply = CalorieText.couldNotEstimate

-----------------------------------------------------------------------------
(* Claims about concurrent commands *)

(* C33: the value resetToday returns is the total its write replaced, also
   when an addCalories or subtractCalories of another message runs between
   the two statements of the reset: no added calories are overwritten without
   being reported. *)
C33_ResetAtomic ==
  [][ Returns("resetToday") =>
        calorieCall'.returned = getTodayTotal(daily_calories, calorieCall'.date) ]_vars

\* the detached functions of uber_confirm that are running; each has called
\* confirmUberRide with its pendingRide as its first statement
Confirming == {t \in tasks : t.kind = "confirm"}

(* C34: a quote is booked at most once: while the continuation of an
   uber_confirm is running, a further uber_confirm of the same phone for the
   same pendingRide does not invoke the ride agent's confirm again. *)
C34_BookedAtMostOnce ==
  \A t1 \in Confirming, t2 \in Confirming :
    (t1.From = t2.From /\ t1.pendingRide = t2.pendingRide) => t1 = t2

\* the pending ride now stored for the phone of task t was saved after the
\* confirm of t read its own: it is the latest save and not the ride t books
NewerQuote(t) ==
  /\ Saved(PendingWrite(t.From))
  /\ \E v \in getPendingRide(pending_uber_rides, t.From, now) :
       /\ v # nullObject
       /\ SameRide(v, PendingWrite(t.From).value)
       /\ ~SameRide(v, t.pendingRide)

(* C35: a successful confirm clears only the quote it booked: when a newer
   pendingRide was saved for the phone while the confirm of the older quote
   was in flight, the completion of that confirm leaves the newer pendingRide
   retrievable. *)
C35_ConfirmKeepsNewerQuote ==
  [][ ( /\ Continues("confirmUberRide")
        /\ agentCall'.ride.kind = "booked"
        /\ NewerQuote(Completed) ) =>
        getPendingRide(pending_uber_rides', Completed.From, now') =
          getPendingRide(pending_uber_rides, Completed.From, now) ]_vars

\* the last message handled was an uber_cancel answered with 'Pending Uber
\* request cleared.'; no uber_confirm has been accepted since
PendingJustCleared ==
  /\ parsed.type = "uber_cancel"
  /\ reply = RideText.pendingCleared

(* C36: after uber_cancel has replied 'Pending Uber request cleared.' to a
   phone, no activeRide is created for that phone before a later uber_confirm
   is accepted, also when the continuation of a confirm for the cleared
   quote was still running as the cancel arrived. *)
C36_NoRideAfterCancel ==
  [][ PendingJustCleared =>
        getActiveRide(active_uber_rides', req.From) =
          getActiveRide(active_uber_rides, req.From) ]_vars

-----------------------------------------------------------------------------
(* Claims about the session entry under refreshes, checked under SpecBus *)

BusWrite(p) == lastPut["lastBusQuery"][p]

(* C37: a refresh does not extend the TTL of the bus query: a refresh that
   finds an unexpired entry leaves the sessions map as it is, the stored
   timestamp is always the time of the phone's last stop_query, and the
   entry is expired at every time later than 20 minutes after that
   stop_query, whatever refreshes were served in between. *)
C37_RefreshKeepsTtl ==
  /\ [][ (Handles("refresh") /\ storeCall'.result # nullObject) =>
           sessions' = sessions ]_vars
  /\ [](\A p \in Phones :
          Saved(BusWrite(p)) =>
            /\ mapHas(sessions, p) => mapGet(sessions, p).timestamp = BusWrite(p).at
            /\ now > BusWrite(p).at + timeout =>
                 getLastQuery(sessions, p, now) = nullObject)

\* a refresh was served ten minutes after the stop_query, and thirty minutes
\* after the stop_query the entry, still stored, is expired
C37_Witness ==
  /\ storeCall.op = "getLastQuery"
  /\ storeCall.result # nullObject
  /\ Saved(BusWrite(storeCall.phone))
  /\ storeCall.at > BusWrite(storeCall.phone).at
  /\ now > BusWrite(storeCall.phone).at + timeout
  /\ now <= storeCall.at + timeout
  /\ mapHas(sessions, storeCall.phone)
  /\ getLastQuery(sessions, storeCall.phone, now) = nullObject

-----------------------------------------------------------------------------
(* The agent loops of getUberQuote and confirmUberRide, one await at a step *)

\* let maxIterations = 25 / let maxIterations = 30
QuoteMaxIterations == 25
ConfirmMaxIterations == 30

AgentFunctions == {"getUberQuote", "confirmUberRide"}
maxIterationsOf(fn) ==
  IF fn = "getUberQuote" THEN QuoteMaxIterations ELSE ConfirmMaxIterations
MaxIterationsMessage(fn) ==
  IF fn = "getUberQuote" THEN "Max iterations reached without getting a quote"
  ELSE "Max iterations reached without completing booking"

\* what anthropic.messages.create may resolve to, or that it rejects:
\* stop_reason end_turn with a text block holding a JSON object (by what the
\* object says), with a text whose braces are not JSON, with a text without
\* braces or without a text block; another stop_reason with or without
\* tool_use blocks
ModelResponses ==
  { "rejects", "end_turn requiresAuth", "end_turn result", "end_turn failure",
    "end_turn bad json", "end_turn no json", "end_turn no text",
    "no tool calls", "tool_use" }

\* the run of one call: pc is the statement it stands before, client the
\* state of mcpClient, calls the number of anthropic.messages.create calls
AgentRun(fn, pc, maxIterations, calls, client, outcome, message, response) ==
  [ fn |-> fn, pc |-> pc, maxIterations |-> maxIterations, calls |-> calls,
    client |-> client, outcome |-> outcome, message |-> message,
    response |-> response ]

\* variant: while (maxIterations-- >= 0)
loopTestInclusive(maxIterations) == maxIterations >= 0

\* while (maxIterations-- > 0)
loopTest(maxIterations) == maxIterations > 0

\* how one response ends the iteration: the run returns, throws, breaks out
\* of the loop or goes on with the tool results
iteration(fn, response) ==
  CASE response = "rejects" -> [ends |-> "throws", message |-> "<rejection>"]
    [] response = "end_turn bad json" -> [ends |-> "throws", message |-> "<SyntaxError>"]
    [] response = "end_turn requiresAuth" ->
         IF fn = "getUberQuote" THEN [ends |-> "returns", message |-> ""]
         ELSE [ends |-> "throws", message |-> "Booking failed"]
    [] response = "end_turn failure" ->
         IF fn = "getUberQuote" THEN [ends |-> "returns", message |-> ""]
         ELSE [ends |-> "throws", message |-> "Booking failed"]
    [] response = "end_turn result" -> [ends |-> "returns", message |-> ""]
    [] response \in {"end_turn no json", "end_turn no text", "no tool calls"} ->
         [ends |-> "breaks", message |-> MaxIterationsMessage(fn)]
    [] OTHER -> [ends |-> "continues", message |-> ""]

\* the function is called: confirmUberRide throws at once without a product;
\* loadMcpSdk resolves or rejects, and then the client is constructed
AgentCall ==
  /\ agentRun = NoCall
  /\ \E fn \in AgentFunctions, pendingRide \in Quotes, sdk \in {"loaded", "rejects"} :
       agentRun' =
         IF fn = "confirmUberRide" /\ ~hasProduct(pendingRide)
         THEN AgentRun(fn, "done", 0, 0, "none", "thrown",
                       "Invalid product selection", "none")
         ELSE IF sdk = "rejects"
         THEN AgentRun(fn, "done", 0, 0, "none", "thrown", "<rejection>", "none")
         ELSE AgentRun(fn, "connect", 0, 0, "created", "running", "", "none")
  /\ UNCHANGED <<rideVars, ops, calorieVars, parsedData, responseText, calorieData>>

\* await mcpClient.connect(transport) and listTools()
AgentConnect ==
  /\ agentRun # NoCall
  /\ agentRun.pc = "connect"
  /\ \E connected \in BOOLEAN :
       agentRun' =
         IF connected
         THEN [agentRun EXCEPT !.pc = "loop", !.client = "connected",
                               !.maxIterations = maxIterationsOf(agentRun.fn)]
         ELSE [agentRun EXCEPT !.pc = "finally", !.outcome = "thrown",
                               !.message = "<rejection>"]
  /\ UNCHANGED <<rideVars, ops, calorieVars, parsedData, responseText, calorieData>>

\* one turn of the while statement: the test with its decrement, then the
\* model call and what follows from its response
AgentIterate ==
  /\ agentRun # NoCall
  /\ agentRun.pc = "loop"
  /\ IF ~loopTest(agentRun.maxIterations)
     THEN agentRun' = [agentRun EXCEPT !.pc = "finally", !.outcome = "thrown",
                                       !.maxIterations = @ - 1,
                                       !.message = MaxIterationsMessage(agentRun.fn),
                                       !.response = "none"]
     ELSE \E response \in ModelResponses :
            LET it == iteration(agentRun.fn, response)
            IN  agentRun' =
                  [agentRun EXCEPT
                     !.maxIterations = @ - 1,
                     !.calls = @ + 1,
                     !.response = response,
                     !.pc = IF it.ends = "continues" THEN "loop" ELSE "finally",
                     !.outcome = CASE it.ends = "continues" -> "running"
                                   [] it.ends = "returns" -> "returned"
                                   [] OTHER -> "thrown",
                     !.message = it.message]
  /\ UNCHANGED <<rideVars, ops, calorieVars, parsedData, responseText, calorieData>>

\* finally { try { await mcpClient.close() } catch (e) {} }
AgentFinally ==
  /\ agentRun # NoCall
  /\ agentRun.pc = "finally"
  /\ agentRun' = [agentRun EXCEPT !.pc = "done", !.client = "closed"]
  /\ UNCHANGED <<rideVars, ops, calorieVars, parsedData, responseText, calorieData>>

NextAgent == AgentCall \/ AgentConnect \/ AgentIterate \/ AgentFinally

SpecAgent == InitCalorie /\ [][NextAgent]_vars

\* every await of the run settles
SpecAgentFair == SpecAgent /\ WF_vars(NextAgent)

Running == agentRun # NoCall
Ended == Running /\ agentRun.pc = "done"

(* C38: the agent loops terminate: getUberQuote makes at most 25 model calls
   and confirmUberRide at most 30; every run ends, by returning a result or
   by throwing; an end_turn without JSON, a response without tool calls and
   the exhaustion of the iterations end in a throw; and a run that has ended
   has closed the MCP client it created. *)
C38_AgentLoopsTerminate ==
  /\ [](Running => agentRun.calls <= maxIterationsOf(agentRun.fn))
  /\ [](Ended => /\ agentRun.outcome \in {"returned", "thrown"}
                 /\ agentRun.client \in {"none", "closed"}
                 /\ agentRun.client = "none" => agentRun.calls = 0)
  /\ [](( /\ Running
          /\ agentRun.pc \in {"finally", "done"}
          /\ \/ agentRun.response \in {"end_turn no json", "end_turn no text",
                                       "no tool calls"}
             \/ agentRun.maxIterations < 0 ) =>
          agentRun.outcome = "thrown")
  /\ <>Ended

\* a run of getUberQuote has ended after its twenty-fifth model call asked
\* for tools again: it threw and closed the client
C38_Witness ==
  /\ Ended
  /\ agentRun.fn = "getUberQuote"
  /\ agentRun.calls = QuoteMaxIterations
  /\ agentRun.response = "none"
  /\ agentRun.outcome = "thrown"
  /\ agentRun.message = "Max iterations reached without getting a quote"
  /\ agentRun.client = "closed"

====
